---- MODULE Spec2Model ----
(***************************************************************************)
(* Model of notion-puller: the reference normaliser (url-parser.ts), the   *)
(* output writer (writer.ts), the CSV exporter (csv.ts) and the traversal  *)
(* orchestrator (run.ts) with the gateway it calls (pages.ts,              *)
(* databases.ts, client.ts).                                               *)
(*                                                                         *)
(* Strings are sequences of one-character strings, so that slicing,        *)
(* case-folding and pattern tests are computed and not assumed.            *)
(***************************************************************************)
EXTENDS Integers, Sequences, FiniteSets, TLC

VARIABLES
    world,      \* the remote workspace served by the Notion API
    pc,         \* position of run(): "start", "detect", "running", "done", "failed"
    reference,  \* run()'s first argument, as typed by the user
    options,    \* run()'s CliOptions plus the NOTION_TOKEN environment variable
    id,         \* const { id } = parseNotionReference(reference)
    visited,    \* const visited = new Set<string>()
    stack,      \* the pending pullPage/pullDatabase/pullChildResources calls
    log,        \* every gateway call and every file write, in order
    arg,        \* input of the pure function under study
    res         \* its result

vars == <<world, pc, reference, options, id, visited, stack, log, arg, res>>

----------------------------------------------------------------------------
(* Strings *)

\* TLC evaluates an operator's argument again at each use; a bound variable is
\* evaluated once.  Let(e, F) is F(e) with e evaluated once.
Let(e, F(_)) == CHOOSE r \in { F(t) : t \in {e} } : TRUE

\* the sequence 1..n |-> F(i) as a tuple
RECURSIVE Tabulate(_, _, _)
Tabulate(F(_), k, n) == IF k > n THEN <<>> ELSE <<F(k)>> \o Tabulate(F, k + 1, n)

Chars(s) == Tabulate(LAMBDA i : SubSeq(s, i, i), 1, Len(s))

Repeat(c, n) == Tabulate(LAMBDA i : c, 1, n)

\* the decimal digit of a number below ten
Digit(n) == SubSeq("0123456789", n + 1, n + 1)

Digits == {"0", "1", "2", "3", "4", "5", "6", "7", "8", "9"}
HexLower == Digits \cup {"a", "b", "c", "d", "e", "f"}
HexUpper == Digits \cup {"A", "B", "C", "D", "E", "F"}

\* the `i` flag of UUID_BARE and UUID_DASHED
IsHex(c) == c \in HexLower \cup HexUpper

UpperOf ==
    [a |-> "A", b |-> "B", c |-> "C", d |-> "D", e |-> "E", f |-> "F",
     h |-> "H", i |-> "I", l |-> "L", m |-> "M", n |-> "N", o |-> "O",
     p |-> "P", s |-> "S", t |-> "T", w |-> "W", x |-> "X"]

LowerChar(c) ==
    IF \E k \in DOMAIN UpperOf : UpperOf[k] = c
    THEN CHOOSE k \in DOMAIN UpperOf : UpperOf[k] = c
    ELSE c

\* String.prototype.toLowerCase
ToLowerCase(s) == Let(s, LAMBDA t : Tabulate(LAMBDA i : LowerChar(t[i]), 1, Len(t)))

Whitespace == {" ", "\t", "\n", "\r"}

RECURSIVE TrimStart(_)
TrimStart(s) ==
    Let(s, LAMBDA t :
        IF t # <<>> /\ Head(t) \in Whitespace THEN TrimStart(Tail(t)) ELSE t)

RECURSIVE TrimEnd(_)
TrimEnd(s) ==
    Let(s, LAMBDA t :
        IF t # <<>> /\ t[Len(t)] \in Whitespace
        THEN TrimEnd(SubSeq(t, 1, Len(t) - 1))
        ELSE t)

\* String.prototype.trim
Trim(s) == TrimEnd(TrimStart(s))

\* String.prototype.slice(from, to) with 0-based, end-exclusive offsets
Slice(s, from, to) ==
    SubSeq(s, from + 1, IF to < Len(s) THEN to ELSE Len(s))

StartsWith(s, p) ==
    \E t \in {s}, q \in {p} : Len(t) >= Len(q) /\ SubSeq(t, 1, Len(q)) = q

\* String.prototype.includes
Includes(s, p) ==
    \E t \in {s}, q \in {p} :
        \E i \in 1..(Len(t) + 1) :
            i + Len(q) - 1 <= Len(t) /\ SubSeq(t, i, i + Len(q) - 1) = q

\* the 1-based index of the first character of s that is in cs, or Len(s)+1
FirstIn(s, cs, i) ==
    Let(s, LAMBDA t :
        LET hits == {k \in i..Len(t) : t[k] \in cs}
        IN  IF hits = {} THEN Len(t) + 1
            ELSE CHOOSE k \in hits : \A j \in hits : k <= j)

\* String.prototype.split(sep) for a one-character separator
RECURSIVE Split(_, _)
Split(s, sep) ==
    Let(s, LAMBDA t :
    Let(FirstIn(t, {sep}, 1), LAMBDA i :
        IF i > Len(t)
        THEN <<t>>
        ELSE <<SubSeq(t, 1, i - 1)>> \o Split(SubSeq(t, i + 1, Len(t)), sep)))

RECURSIVE Join(_, _)
Join(parts, sep) ==
    IF parts = <<>> THEN <<>>
    ELSE IF Len(parts) = 1 THEN parts[1]
    ELSE parts[1] \o sep \o Join(Tail(parts), sep)

\* the template `${a}${b}${c}${d}${e}`
Wrap3(a, b, c, d, e) == a \o b \o c \o d \o e

RECURSIVE FilterNonEmpty(_)
FilterNonEmpty(parts) ==
    IF parts = <<>> THEN <<>>
    ELSE IF Head(parts) = <<>> THEN FilterNonEmpty(Tail(parts))
    ELSE <<Head(parts)>> \o FilterNonEmpty(Tail(parts))

RECURSIVE Remove(_, _)
Remove(s, c) ==
    IF s = <<>> THEN <<>>
    ELSE IF Head(s) = c THEN Remove(Tail(s), c)
    ELSE <<Head(s)>> \o Remove(Tail(s), c)

----------------------------------------------------------------------------
(* url-parser.ts *)

UuidBareLen == 32
UuidDashedLen == 36
DashPositions == {9, 14, 19, 24}

\* UUID_BARE.test(s)
UUID_BARE(s) == Len(s) = UuidBareLen /\ \A i \in 1..Len(s) : IsHex(s[i])

\* UUID_DASHED.test(s)
UUID_DASHED(s) ==
    /\ Len(s) = UuidDashedLen
    /\ \A i \in 1..Len(s) :
        IF i \in DashPositions THEN s[i] = "-" ELSE IsHex(s[i])

toDashedUuid(hex) ==
    Let(hex, LAMBDA h : Join(<<Slice(h, 0, 8), Slice(h, 8, 12), Slice(h, 12, 16),
                              Slice(h, 16, 20), Slice(h, 20, 32)>>, <<"-">>))

NoMatch == [found |-> FALSE, hex |-> <<>>]

MatchTail(last) ==
    LET n      == Len(last)
        tail32 == SubSeq(last, n - UuidBareLen + 1, n)
        tail36 == SubSeq(last, n - UuidDashedLen + 1, n)
    IN  IF n >= UuidBareLen /\ \E t \in {tail32} : UUID_BARE(t)
        THEN [found |-> TRUE, hex |-> tail32]
        ELSE IF n >= UuidDashedLen /\ UUID_DASHED(tail36)
             THEN [found |-> TRUE, hex |-> Remove(tail36, "-")]
        ELSE NoMatch

extractIdFromPath(path) ==
    Let(Split(Split(path, "?")[1], "#")[1], LAMBDA clean :
    Let(FilterNonEmpty(Split(clean, "/")), LAMBDA segments :
        IF segments = <<>> THEN NoMatch ELSE MatchTail(segments[Len(segments)])))

\* new URL(s) for an http(s) URL: hostname (lower-cased) and pathname
ParseUrl(s) ==
    Let(IF StartsWith(s, Chars("https://")) THEN 8 ELSE 7, LAMBDA scheme :
    Let(SubSeq(s, scheme + 1, Len(s)), LAMBDA rest :
    Let(FirstIn(rest, {"/", "?", "#"}, 1), LAMBDA hostEnd :
    Let(SubSeq(rest, 1, hostEnd - 1), LAMBDA host :
    Let(SubSeq(rest, hostEnd, Len(rest)), LAMBDA afterH :
    Let(SubSeq(afterH, 1, FirstIn(afterH, {"?", "#"}, 1) - 1), LAMBDA path :
        [ok       |-> host # <<>> /\ \A i \in 1..Len(host) : host[i] \notin Whitespace,
         hostname |-> ToLowerCase(host),
         pathname |-> IF path = <<>> THEN <<"/">> ELSE path]))))))

Thrown == [ok |-> FALSE, id |-> <<>>]
Parsed(i) == [ok |-> TRUE, id |-> i]

ParseFromUrl(trimmed) ==
    Let(ParseUrl(trimmed), LAMBDA url :
        IF ~url.ok THEN Thrown
        ELSE IF ~Includes(url.hostname, Chars("notion")) THEN Thrown
        ELSE Let(extractIdFromPath(url.pathname), LAMBDA hex :
                 IF ~hex.found THEN Thrown ELSE Parsed(toDashedUuid(hex.hex))))

parseNotionReference(input) ==
    Let(Trim(input), LAMBDA trimmed :
        IF UUID_BARE(trimmed) THEN Parsed(toDashedUuid(trimmed))
        ELSE IF UUID_DASHED(trimmed) THEN Parsed(ToLowerCase(trimmed))
        ELSE IF StartsWith(trimmed, Chars("http://"))
                \/ StartsWith(trimmed, Chars("https://"))
             THEN ParseFromUrl(trimmed)
        ELSE Thrown)

----------------------------------------------------------------------------
(* writer.ts *)

MaxFilenameLen == 200

UnsafeChars == {"<", ">", ":", "\"", "/", "\\", "|", "?", "*", "\t", "\n", "\r"}

\* .replace(/[<>:"/\\|?*\x00-\x1f]/g, "_")
ReplaceUnsafe(s) ==
    Let(s, LAMBDA t : Tabulate(LAMBDA i : IF t[i] \in UnsafeChars THEN "_" ELSE t[i],
                               1, Len(t)))

\* .replace(/\s+/g, " ")
RECURSIVE CollapseWhitespace(_)
CollapseWhitespace(s) ==
    IF s = <<>> THEN <<>>
    ELSE IF Head(s) \in Whitespace
         THEN <<" ">> \o CollapseWhitespace(TrimStart(s))
         ELSE <<Head(s)>> \o CollapseWhitespace(Tail(s))

\* .replace(/^\.+/, "_")
ReplaceLeadingDots(s) ==
    LET n == FirstIn(s, {c \in {s[i] : i \in 1..Len(s)} : c # "."}, 1)
    IN  IF n = 1 THEN s ELSE <<"_">> \o SubSeq(s, n, Len(s))

sanitizeFilename(name) ==
    Let(ReplaceUnsafe(name), LAMBDA a :
    Let(CollapseWhitespace(a), LAMBDA b :
    Let(ReplaceLeadingDots(b), LAMBDA c :
    Let(Trim(c), LAMBDA d :
    Let(Slice(d, 0, MaxFilenameLen), LAMBDA out :
        IF out = <<>> THEN Chars("Untitled") ELSE out)))))

\* path.join on a path given as its sequence of segments
RECURSIVE Normalize(_, _)
Normalize(segs, acc) ==
    IF segs = <<>> THEN acc
    ELSE IF Head(segs) \in {<<>>, <<".">>} THEN Normalize(Tail(segs), acc)
    ELSE IF Head(segs) = <<".", ".">> /\ acc # <<>> /\ acc[Len(acc)] # <<".", ".">>
         THEN Normalize(Tail(segs), SubSeq(acc, 1, Len(acc) - 1))
    ELSE Normalize(Tail(segs), Append(acc, Head(segs)))

\* const fullPath = join(outputDir, relativePath)
FullPath(outputDir, relativePath) == Normalize(outputDir \o relativePath, <<>>)

----------------------------------------------------------------------------
(* The remote workspace: what the Notion API serves.  Identifiers are the  *)
(* lower-case dashed UUIDs the API reports; a request may name a UUID in   *)
(* either letter case (RFC 4122: case-insensitive on input).               *)

Uuid(c) == toDashedUuid(Repeat(c, UuidBareLen))

PageC == Uuid("c")
PageD == Uuid("d")
Page9 == Uuid("9")
DbA == Uuid("a")
DbB == Uuid("b")
EntryE == Uuid("e")
EntryF == Uuid("f")
Entry8 == Uuid("8")
Toggle1 == Uuid("1")
Para2 == Uuid("2")
Part3 == Uuid("3")
Column4 == Uuid("4")

PageIds == {PageC, PageD, Page9, EntryE, EntryF, Entry8}
DbIds == {DbA, DbB}
BlockIds == PageIds \cup {Toggle1, Para2, Part3, Column4}

Canon(i) == ToLowerCase(i)

\* a block object of client.blocks.children.list; a partial one has no `type`
Blk(i, t, hc) == [id |-> i, type |-> t, has_children |-> hc, full |-> TRUE]
PartialBlk(i) == [id |-> i, type |-> "", has_children |-> FALSE, full |-> FALSE]

\* a result of client.dataSources.query; a partial one has no `properties`
Row(i) == [id |-> i, full |-> TRUE]
PartialRow(i) == [id |-> i, full |-> FALSE]

\* a property of the data source: a relation names its target database
Prop(n, t, target) == [name |-> n, type |-> t, database_id |-> target]

KidsOfC ==
    { <<Blk(Para2, "paragraph", FALSE)>>,
      <<Blk(Column4, "column", TRUE), Blk(Toggle1, "toggle", TRUE)>>,
      <<PartialBlk(Part3), Blk(PageD, "child_page", TRUE), Blk(Page9, "child_page", TRUE),
        Blk(DbB, "child_database", FALSE)>> }

KidsOfD ==
    { <<Blk(Para2, "paragraph", FALSE)>>,
      <<Blk(PageC, "child_page", TRUE), Blk(DbB, "child_database", FALSE)>> }

RelationsOf ==
    { [a |-> <<>>, b |-> <<>>],
      [a |-> <<DbB>>, b |-> <<DbA>>],
      [a |-> <<DbA, DbB>>, b |-> <<>>] }

TitleModes == {"distinct", "clash"}

TitleOf(tm) ==
    [i \in PageIds \cup DbIds |->
        CASE i = PageC  -> Chars("Home")
          [] i = PageD  -> Chars("Notes")
          [] i = Page9  -> IF tm = "clash" THEN Chars("Notes") ELSE Chars("Tasks")
          [] i = EntryE -> Chars("Untitled")
          [] i = EntryF -> Chars("F")
          [] i = Entry8 -> IF tm = "clash" THEN <<>> ELSE Chars("E 8")
          [] i = DbA    -> Chars("A/B")
          [] i = DbB    -> IF tm = "clash" THEN Chars("A:B") ELSE <<>>]

RelationProps(targets) ==
    Tabulate(LAMBDA k : Prop(<<"r", targets[k][1]>>, "relation", targets[k]),
             1, Len(targets))

MakeWorld(kc, kd, rel, tm) ==
    [ kids |->
        [b \in BlockIds |->
            CASE b = PageC   -> kc
              [] b = PageD   -> kd
              [] b = Page9   -> <<Blk(Para2, "paragraph", FALSE)>>
              [] b = Column4 -> <<PartialBlk(Part3), Blk(Para2, "paragraph", FALSE)>>
              [] b = Toggle1 -> <<Blk(PageD, "child_page", TRUE),
                                  Blk(DbA, "child_database", TRUE)>>
              [] b = EntryE  -> <<Blk(Toggle1, "toggle", TRUE)>>
              [] b = Entry8  -> <<Blk(Para2, "paragraph", FALSE)>>
              [] OTHER       -> <<>>],
      title |-> TitleOf(tm),
      properties |->
        [d \in DbIds |->
            <<Prop(Chars("Name"), "title", <<>>)>>
              \o RelationProps(IF d = DbA THEN rel.a ELSE rel.b)],
      rows |->
        [d \in DbIds |->
            IF d = DbA
            THEN <<Row(EntryE), PartialRow(Part3), Row(EntryF), Row(Entry8)>>
            ELSE <<>>] ]

Worlds ==
    { MakeWorld(kc, kd, rel, tm) :
        kc \in KidsOfC, kd \in KidsOfD, rel \in RelationsOf, tm \in TitleModes }

IsPage(w, i) == Canon(i) \in PageIds
IsDatabase(w, i) == Canon(i) \in DbIds

----------------------------------------------------------------------------
(* pages.ts *)

NotExpanded == {"child_page", "child_database"}

RECURSIVE fetchBlockChildren(_, _), AttachChildren(_, _, _)

\* AttachChildren without the `if (!("type" in block)) continue`
AttachChildrenKeepPartial(w, results, k) ==
    IF k > Len(results) THEN <<>>
    ELSE LET block == results[k]
             shouldRecurse == block.has_children /\ block.type \notin NotExpanded
             children == IF shouldRecurse THEN fetchBlockChildren(w, block.id) ELSE <<>>
         IN  <<[id |-> block.id, type |-> block.type, children |-> children]>>
                \o AttachChildren(w, results, k + 1)

\* AttachChildren that lists one level only
AttachChildrenShallow(w, results, k) ==
    IF k > Len(results) THEN <<>>
    ELSE LET block == results[k]
         IN  IF ~block.full
             THEN AttachChildren(w, results, k + 1)
             ELSE <<[id |-> block.id, type |-> block.type, children |-> <<>>]>>
                    \o AttachChildren(w, results, k + 1)

AttachChildren(w, results, k) ==
    IF k > Len(results) THEN <<>>
    ELSE LET block == results[k]
             shouldRecurse == block.has_children /\ block.type \notin NotExpanded
             children == IF shouldRecurse THEN fetchBlockChildren(w, block.id) ELSE <<>>
         IN  IF ~block.full
             THEN AttachChildren(w, results, k + 1)
             ELSE <<[id |-> block.id, type |-> block.type, children |-> children]>>
                    \o AttachChildren(w, results, k + 1)

fetchBlockChildren(w, blockId) ==
    Let(w.kids[Canon(blockId)], LAMBDA results : AttachChildren(w, results, 1))

getPageTitle(w, pageId) ==
    IF w.title[Canon(pageId)] = <<>> THEN Chars("Untitled") ELSE w.title[Canon(pageId)]

(* databases.ts *)

getDatabaseTitle(w, databaseId) ==
    IF w.title[Canon(databaseId)] = <<>>
    THEN Chars("Untitled Database")
    ELSE w.title[Canon(databaseId)]

RECURSIVE queryAllEntries(_)
queryAllEntries(results) ==
    IF results = <<>> THEN <<>>
    ELSE IF Head(results).full
         THEN <<Head(results).id>> \o queryAllEntries(Tail(results))
         ELSE queryAllEntries(Tail(results))

RECURSIVE findRelationTargets(_)
findRelationTargets(properties) ==
    IF properties = <<>> THEN <<>>
    ELSE IF Head(properties).type = "relation"
         THEN <<[propertyName |-> Head(properties).name,
                 targetDatabaseId |-> Head(properties).database_id]>>
                \o findRelationTargets(Tail(properties))
         ELSE findRelationTargets(Tail(properties))

(* client.ts *)

Undefined == "undefined"

\* createNotionClient without the `if (!resolved) throw`
createNotionClientUnchecked(token, env) == TRUE

\* createNotionClient: token ?? process.env.NOTION_TOKEN, then `if (!resolved) throw`
createNotionClient(token, env) ==
    LET resolved == IF token # Undefined THEN token ELSE env
    IN  resolved # Undefined /\ resolved # ""

----------------------------------------------------------------------------
(* run.ts *)

MaxDepth == 2

References ==
    { Repeat("c", UuidBareLen),
      Chars("https://www.notion.so/ws/Home-") \o Repeat("C", UuidBareLen),
      Repeat("A", UuidBareLen),
      Uuid("A"),
      Chars("Home"),
      Chars("https://example.com/") \o Repeat("a", UuidBareLen) }

OptionsSet ==
    { [token |-> t.arg, env |-> t.env, output |-> <<Chars("out")>>, type |-> ty, depth |-> d] :
        t \in { [arg |-> Undefined, env |-> Undefined],
                [arg |-> "", env |-> "ntn_1"],
                [arg |-> Undefined, env |-> "ntn_1"] },
        ty \in {Undefined, "page", "database"},
        d \in 0..MaxDepth }

NoData == [dbTitle |-> <<>>, relations |-> <<>>, entries |-> <<>>]

Frame(fn, i, dir, depth, at) ==
    [fn |-> fn, id |-> i, outputDir |-> dir, maxDepth |-> depth, at |-> at,
     title |-> <<>>, blocks |-> <<>>, data |-> NoData, i |-> 1]

Top == stack[Len(stack)]
Callers == SubSeq(stack, 1, Len(stack) - 1)
With(f) == Append(Callers, f)

Fetch(by, i, result, kept, dropped) ==
    [by |-> by, id |-> i, result |-> result, path |-> <<>>, content |-> kept,
     dropped |-> dropped]

Write(i, path, content) ==
    [by |-> "writeOutputFile", id |-> i, result |-> "written", path |-> path,
     content |-> content, dropped |-> <<>>]

\* a rejected promise is caught nowhere in run.ts: it ends run()
Throw(ev) ==
    /\ log' = Append(log, ev)
    /\ pc' = "failed"
    /\ stack' = <<>>
    /\ UNCHANGED visited

\* the callee returned to `base`; run() ends when nothing is pending
Resume(base) ==
    /\ stack' = base
    /\ pc' = IF base = <<>> THEN "done" ELSE "running"

RECURSIVE Ids(_)
Ids(blocks) ==
    IF blocks = <<>> THEN <<>>
    ELSE <<Head(blocks).id>> \o Ids(Head(blocks).children) \o Ids(Tail(blocks))

\* the partial blocks met while listing blockId and the blocks expanded under it
RECURSIVE Skipped(_, _), SkippedFrom(_, _, _)
SkippedFrom(w, results, k) ==
    IF k > Len(results) THEN <<>>
    ELSE LET block == results[k]
         IN  (IF ~block.full THEN <<block.id>>
              ELSE IF block.has_children /\ block.type \notin NotExpanded
                   THEN Skipped(w, block.id)
                   ELSE <<>>)
             \o SkippedFrom(w, results, k + 1)

Skipped(w, blockId) ==
    Let(w.kids[Canon(blockId)], LAMBDA results : SkippedFrom(w, results, 1))

RECURSIVE SkippedRows(_)
SkippedRows(results) ==
    IF results = <<>> THEN <<>>
    ELSE (IF Head(results).full THEN <<>> ELSE <<Head(results).id>>)
         \o SkippedRows(Tail(results))

\* the synchronous head of pullPage: the visited test, then visited.add
pullPage(pageId, outputDir, maxDepth, base) ==
    IF pageId \in visited
    THEN Resume(base) /\ UNCHANGED visited
    ELSE /\ visited' = visited \cup {pageId}
         /\ stack' = Append(base, Frame("pullPage", pageId, outputDir, maxDepth, "fetchPage"))
         /\ pc' = "running"

\* the synchronous head of pullDatabase
pullDatabase(databaseId, outputDir, maxDepth, base) ==
    IF databaseId \in visited
    THEN Resume(base) /\ UNCHANGED visited
    ELSE /\ visited' = visited \cup {databaseId}
         /\ stack' = Append(base, Frame("pullDatabase", databaseId, outputDir, maxDepth,
                                        "databases.retrieve"))
         /\ pc' = "running"

\* the calls pullChildResources makes for a block tree, in the order it makes them
RECURSIVE pullChildResources(_)
pullChildResources(blocks) ==
    IF blocks = <<>> THEN <<>>
    ELSE LET block == Head(blocks)
         IN  (IF block.type \in {"child_page", "child_database"}
              THEN <<[type |-> block.type, id |-> block.id]>>
              ELSE <<>>)
             \o pullChildResources(block.children)
             \o pullChildResources(Tail(blocks))

Dispatch(type, i, base) ==
    IF type = "page"
    THEN pullPage(i, options.output, options.depth, base)
    ELSE pullDatabase(i, options.output, options.depth, base)

Init ==
    /\ world \in Worlds
    /\ reference \in References
    /\ options \in OptionsSet
    /\ pc = "start"
    /\ id = <<>>
    /\ visited = {}
    /\ stack = <<>>
    /\ log = <<>>
    /\ arg = <<>>
    /\ res = <<>>

\* run(): parseNotionReference, createNotionClient, then the forced type if any
Run ==
    /\ pc = "start"
    /\ \E parsed \in {parseNotionReference(reference)} :
           IF ~parsed.ok \/ ~createNotionClient(options.token, options.env)
           THEN /\ pc' = "failed"
                /\ id' = (IF parsed.ok THEN parsed.id ELSE id)
                /\ UNCHANGED <<visited, stack>>
           ELSE /\ id' = parsed.id
                /\ IF options.type = Undefined
                   THEN pc' = "detect.page" /\ UNCHANGED <<visited, stack>>
                   ELSE Dispatch(options.type, parsed.id, <<>>)
    /\ UNCHANGED <<world, reference, options, log, arg, res>>

\* detectResourceType: client.pages.retrieve
DetectPage ==
    /\ pc = "detect.page"
    /\ \E outcome \in {"ok", "error"} :
        /\ outcome = "ok" => IsPage(world, id)
        /\ log' = Append(log, Fetch("detect.pages.retrieve", id, outcome, <<>>, <<>>))
        /\ IF outcome = "ok"
           THEN Dispatch("page", id, <<>>)
           ELSE pc' = "detect.database" /\ UNCHANGED <<visited, stack>>
    /\ UNCHANGED <<world, reference, options, id, arg, res>>

\* detectResourceType: client.databases.retrieve, after the page lookup failed
DetectDatabase ==
    /\ pc = "detect.database"
    /\ \E outcome \in {"ok", "error"} :
        /\ outcome = "ok" => IsDatabase(world, id)
        /\ log' = Append(log, Fetch("detect.databases.retrieve", id, outcome, <<>>, <<>>))
        /\ IF outcome = "ok"
           THEN Dispatch("database", id, <<>>)
           ELSE pc' = "failed" /\ UNCHANGED <<visited, stack>>
    /\ UNCHANGED <<world, reference, options, id, arg, res>>

Running(fn, at) == pc = "running" /\ stack # <<>> /\ Top.fn = fn /\ Top.at = at

Unchanged == UNCHANGED <<world, reference, options, id, arg, res>>

\* pullPage: const page = await fetchPage(client, pageId)
FetchPage ==
    /\ Running("pullPage", "fetchPage")
    /\ \E outcome \in {"ok", "error", "partial"} :
        /\ outcome \in {"ok", "partial"} => IsPage(world, Top.id)
        /\ IF outcome = "ok"
           THEN /\ log' = Append(log, Fetch("fetchPage", Top.id, "ok", <<>>, <<>>))
                /\ stack' = With([Top EXCEPT !.at = "fetchBlockChildren",
                                             !.title = getPageTitle(world, Top.id)])
                /\ UNCHANGED <<pc, visited>>
           ELSE Throw(Fetch("fetchPage", Top.id, outcome, <<>>, <<>>))
    /\ Unchanged

\* pullPage: const blocks = await fetchBlockChildren(client, pageId)
PageFetchBlocks ==
    /\ Running("pullPage", "fetchBlockChildren")
    /\ \E outcome \in {"ok", "error"}, blocks \in {fetchBlockChildren(world, Top.id)} :
        IF outcome = "ok"
        THEN /\ log' = Append(log, Fetch("fetchBlockChildren", Top.id, "ok",
                                         Ids(blocks), Skipped(world, Top.id)))
             /\ stack' = With([Top EXCEPT !.at = "writeOutputFile", !.blocks = blocks])
             /\ UNCHANGED <<pc, visited>>
        ELSE Throw(Fetch("fetchBlockChildren", Top.id, "error", <<>>, <<>>))
    /\ Unchanged

\* PageWrite with the depth test `maxDepth >= 0`
PageWriteOffByOne ==
    /\ Running("pullPage", "writeOutputFile")
    /\ \E name \in {sanitizeFilename(Top.title)} :
        LET filename == name \o Chars(".md")
            pageDir  == Top.outputDir \o <<name>>
        IN /\ log' = Append(log, Write(Top.id, FullPath(Top.outputDir, <<filename>>),
                                       Ids(Top.blocks)))
           /\ IF Top.maxDepth >= 0
              THEN stack' = Append(With([Top EXCEPT !.at = "return"]),
                                   [Frame("pullChildResources", Top.id, pageDir,
                                          Top.maxDepth - 1, "for")
                                      EXCEPT !.blocks = Top.blocks])
                   /\ UNCHANGED pc
              ELSE Resume(Callers)
    /\ UNCHANGED visited
    /\ Unchanged

\* pullPage: writeOutputFile(outputDir, `${sanitizeFilename(title)}.md`, markdown),
\* then pullChildResources when maxDepth > 0
PageWrite ==
    /\ Running("pullPage", "writeOutputFile")
    /\ \E name \in {sanitizeFilename(Top.title)} :
        LET filename == name \o Chars(".md")
            pageDir  == Top.outputDir \o <<name>>
        IN /\ log' = Append(log, Write(Top.id, FullPath(Top.outputDir, <<filename>>),
                                       Ids(Top.blocks)))
           /\ IF Top.maxDepth > 0
              THEN stack' = Append(With([Top EXCEPT !.at = "return"]),
                                   [Frame("pullChildResources", Top.id, pageDir,
                                          Top.maxDepth - 1, "for")
                                      EXCEPT !.blocks = Top.blocks])
                   /\ UNCHANGED pc
              ELSE Resume(Callers)
    /\ UNCHANGED visited
    /\ Unchanged

\* pullPage returns once pullChildResources has returned
PageReturn ==
    /\ Running("pullPage", "return")
    /\ Resume(Callers)
    /\ UNCHANGED <<visited, log>>
    /\ Unchanged

\* pullChildResources: the next child_page / child_database block of the tree
ChildResourcesNext ==
    /\ Running("pullChildResources", "for")
    /\ \E calls \in {pullChildResources(Top.blocks)} :
        /\ Top.i <= Len(calls)
        /\ LET call == calls[Top.i]
               base == With([Top EXCEPT !.i = Top.i + 1])
           IN  IF call.type = "child_page"
               THEN pullPage(call.id, Top.outputDir, Top.maxDepth, base)
               ELSE pullDatabase(call.id, Top.outputDir, Top.maxDepth, base)
    /\ UNCHANGED log
    /\ Unchanged

\* pullChildResources: the tree is exhausted
ChildResourcesDone ==
    /\ Running("pullChildResources", "for")
    /\ \E calls \in {pullChildResources(Top.blocks)} : Top.i > Len(calls)
    /\ Resume(Callers)
    /\ UNCHANGED <<visited, log>>
    /\ Unchanged

\* fetchDatabase: client.databases.retrieve, isFullDatabase, data_sources.length
DatabasesRetrieve ==
    /\ Running("pullDatabase", "databases.retrieve")
    /\ \E outcome \in {"ok", "error", "partial", "no data sources"} :
        /\ outcome # "error" => IsDatabase(world, Top.id)
        /\ IF outcome = "ok"
           THEN /\ log' = Append(log, Fetch("databases.retrieve", Top.id, "ok", <<>>, <<>>))
                /\ stack' = With([Top EXCEPT !.at = "dataSources.retrieve"])
                /\ UNCHANGED <<pc, visited>>
           ELSE Throw(Fetch("databases.retrieve", Top.id, outcome, <<>>, <<>>))
    /\ Unchanged

\* fetchDatabase: client.dataSources.retrieve, isFullDataSource
DataSourcesRetrieve ==
    /\ Running("pullDatabase", "dataSources.retrieve")
    /\ \E outcome \in {"ok", "error", "partial"} :
        IF outcome = "ok"
        THEN /\ log' = Append(log, Fetch("dataSources.retrieve", Top.id, "ok", <<>>, <<>>))
             /\ stack' = With([Top EXCEPT !.at = "queryAllEntries"])
             /\ UNCHANGED <<pc, visited>>
        ELSE Throw(Fetch("dataSources.retrieve", Top.id, outcome, <<>>, <<>>))
    /\ Unchanged

\* fetchDatabase: queryAllEntries, then pullDatabase reads the title
QueryAllEntries ==
    /\ Running("pullDatabase", "queryAllEntries")
    /\ \E outcome \in {"ok", "error"}, db \in {Canon(Top.id)} :
        \E data \in {[dbTitle   |-> getDatabaseTitle(world, db),
                       relations |-> findRelationTargets(world.properties[db]),
                       entries   |-> queryAllEntries(world.rows[db])]} :
            IF outcome = "ok"
            THEN /\ log' = Append(log, Fetch("queryAllEntries", Top.id, "ok",
                                             data.entries, SkippedRows(world.rows[db])))
                 /\ stack' = With([Top EXCEPT !.at = "writeOutputFile", !.data = data])
                 /\ UNCHANGED <<pc, visited>>
            ELSE Throw(Fetch("queryAllEntries", Top.id, "error", <<>>, <<>>))
    /\ Unchanged

\* pullDatabase: writeOutputFile(outputDir, `${dbDir}/_index.csv`, csv)
WriteCsv ==
    /\ Running("pullDatabase", "writeOutputFile")
    /\ \E dbDir \in {sanitizeFilename(Top.data.dbTitle)} :
           log' = Append(log, Write(Top.id,
                                    FullPath(Top.outputDir, <<dbDir, Chars("_index.csv")>>),
                                    Top.data.entries))
    /\ stack' = With([Top EXCEPT !.at = "entries", !.i = 1])
    /\ UNCHANGED <<pc, visited>>
    /\ Unchanged

\* EntryFetchBlocks without the `continue` for an entry with no content
EntryFetchBlocksNoSkip ==
    /\ Running("pullDatabase", "entries")
    /\ Top.i <= Len(Top.data.entries)
    /\ \E outcome \in {"ok", "error"}, entry \in {Top.data.entries[Top.i]} :
        \E blocks \in {fetchBlockChildren(world, entry)} :
            IF outcome = "ok"
            THEN /\ log' = Append(log, Fetch("fetchBlockChildren", entry, "ok",
                                             Ids(blocks), Skipped(world, entry)))
                 /\ stack' = With([Top EXCEPT !.at = "entry.writeOutputFile",
                                              !.blocks = blocks,
                                              !.title = getPageTitle(world, entry)])
                 /\ UNCHANGED <<pc, visited>>
            ELSE Throw(Fetch("fetchBlockChildren", entry, "error", <<>>, <<>>))
    /\ Unchanged

\* pullDatabase: const blocks = await fetchBlockChildren(client, entry.id),
\* `continue` when the entry has no content
EntryFetchBlocks ==
    /\ Running("pullDatabase", "entries")
    /\ Top.i <= Len(Top.data.entries)
    /\ \E outcome \in {"ok", "error"}, entry \in {Top.data.entries[Top.i]} :
        \E blocks \in {fetchBlockChildren(world, entry)} :
            IF outcome = "ok"
            THEN /\ log' = Append(log, Fetch("fetchBlockChildren", entry, "ok",
                                             Ids(blocks), Skipped(world, entry)))
                 /\ stack' = IF Len(blocks) = 0
                             THEN With([Top EXCEPT !.i = Top.i + 1])
                             ELSE With([Top EXCEPT !.at = "entry.writeOutputFile",
                                                   !.blocks = blocks,
                                                   !.title = getPageTitle(world, entry)])
                 /\ UNCHANGED <<pc, visited>>
            ELSE Throw(Fetch("fetchBlockChildren", entry, "error", <<>>, <<>>))
    /\ Unchanged

\* EntryWrite with the entry's child resources pulled at the database's own
\* remaining depth
EntryWriteSameDepth ==
    /\ Running("pullDatabase", "entry.writeOutputFile")
    /\ \E dbDir \in {sanitizeFilename(Top.data.dbTitle)},
          name \in {sanitizeFilename(Top.title)} :
        LET filename == name \o Chars(".md")
            entryDir == Top.outputDir \o <<dbDir, name>>
            next     == [Top EXCEPT !.at = "entries", !.i = Top.i + 1]
        IN /\ log' = Append(log, Write(Top.data.entries[Top.i],
                                       FullPath(Top.outputDir, <<dbDir, filename>>),
                                       Ids(Top.blocks)))
           /\ IF Top.maxDepth > 0
              THEN stack' = Append(With(next),
                                   [Frame("pullChildResources", Top.data.entries[Top.i],
                                          entryDir, Top.maxDepth, "for")
                                      EXCEPT !.blocks = Top.blocks])
              ELSE stack' = With(next)
    /\ UNCHANGED <<pc, visited>>
    /\ Unchanged

\* pullDatabase: the entry's Markdown, then its child resources when maxDepth > 0
EntryWrite ==
    /\ Running("pullDatabase", "entry.writeOutputFile")
    /\ \E dbDir \in {sanitizeFilename(Top.data.dbTitle)},
          name \in {sanitizeFilename(Top.title)} :
        LET filename == name \o Chars(".md")
            entryDir == Top.outputDir \o <<dbDir, name>>
            next     == [Top EXCEPT !.at = "entries", !.i = Top.i + 1]
        IN /\ log' = Append(log, Write(Top.data.entries[Top.i],
                                       FullPath(Top.outputDir, <<dbDir, filename>>),
                                       Ids(Top.blocks)))
           /\ IF Top.maxDepth > 0
              THEN stack' = Append(With(next),
                                   [Frame("pullChildResources", Top.data.entries[Top.i],
                                          entryDir, Top.maxDepth - 1, "for")
                                      EXCEPT !.blocks = Top.blocks])
              ELSE stack' = With(next)
    /\ UNCHANGED <<pc, visited>>
    /\ Unchanged

\* pullDatabase: the entries loop is over
EntriesDone ==
    /\ Running("pullDatabase", "entries")
    /\ Top.i > Len(Top.data.entries)
    /\ stack' = With([Top EXCEPT !.at = "relations", !.i = 1])
    /\ UNCHANGED <<pc, visited, log>>
    /\ Unchanged

\* RelationNext with a loop that does not advance past a visited target
RelationNextStuck ==
    /\ Running("pullDatabase", "relations")
    /\ Top.maxDepth > 0
    /\ Top.i <= Len(Top.data.relations)
    /\ LET rel  == Top.data.relations[Top.i]
           base == With([Top EXCEPT !.i = Top.i + 1])
       IN  IF rel.targetDatabaseId \in visited
           THEN UNCHANGED <<stack, pc, visited>>
           ELSE pullDatabase(rel.targetDatabaseId, Top.outputDir, Top.maxDepth - 1, base)
    /\ UNCHANGED log
    /\ Unchanged

\* pullDatabase: the next relation; a visited target is skipped
RelationNext ==
    /\ Running("pullDatabase", "relations")
    /\ Top.maxDepth > 0
    /\ Top.i <= Len(Top.data.relations)
    /\ LET rel  == Top.data.relations[Top.i]
           base == With([Top EXCEPT !.i = Top.i + 1])
       IN  IF rel.targetDatabaseId \in visited
           THEN stack' = base /\ UNCHANGED <<pc, visited>>
           ELSE pullDatabase(rel.targetDatabaseId, Top.outputDir, Top.maxDepth - 1, base)
    /\ UNCHANGED log
    /\ Unchanged

\* pullDatabase returns: no depth left, or no relation left
RelationsDone ==
    /\ Running("pullDatabase", "relations")
    /\ Top.maxDepth <= 0 \/ Top.i > Len(Top.data.relations)
    /\ Resume(Callers)
    /\ UNCHANGED <<visited, log>>
    /\ Unchanged

Next ==
    \/ Run
    \/ DetectPage
    \/ DetectDatabase
    \/ FetchPage
    \/ PageFetchBlocks
    \/ PageWrite
    \/ PageReturn
    \/ ChildResourcesNext
    \/ ChildResourcesDone
    \/ DatabasesRetrieve
    \/ DataSourcesRetrieve
    \/ QueryAllEntries
    \/ WriteCsv
    \/ EntryFetchBlocks
    \/ EntryWrite
    \/ EntriesDone
    \/ RelationNext
    \/ RelationsDone

Spec == Init /\ [][Next]_vars

\* the scheduler runs every pending continuation: each awaited call settles
SpecLive == Spec /\ WF_vars(Next)

----------------------------------------------------------------------------
(* url-parser.ts as a one-step machine: one reference in its bare and in   *)
(* its dashed spelling                                                     *)

HexFill == {"0", "9", "a", "F"}
GroupLens == <<8, 4, 4, 4, 12>>

\* the 32-character hexadecimal strings whose five groups are each one
\* repeated character
HexInputs ==
    { Repeat(f[1], GroupLens[1]) \o Repeat(f[2], GroupLens[2])
        \o Repeat(f[3], GroupLens[3]) \o Repeat(f[4], GroupLens[4])
        \o Repeat(f[5], GroupLens[5]) : f \in [1..5 -> HexFill] }

Idle ==
    /\ world = <<>>
    /\ reference = <<>>
    /\ options = <<>>
    /\ id = <<>>
    /\ visited = {}
    /\ stack = <<>>
    /\ log = <<>>

InitParse ==
    /\ Idle
    /\ pc = "parseNotionReference"
    /\ arg \in HexInputs
    /\ res = <<>>

ParseBoth ==
    /\ pc = "parseNotionReference"
    /\ res' = [bare |-> parseNotionReference(arg),
               dashed |-> parseNotionReference(toDashedUuid(arg))]
    /\ pc' = "parsed"
    /\ UNCHANGED <<world, reference, options, id, visited, stack, log, arg>>

NextParse == ParseBoth

SpecParse == InitParse /\ [][NextParse]_vars

----------------------------------------------------------------------------
(* databases.ts: extractPropertyValue *)

\* items.map((t) => t.plain_text).join("")
RECURSIVE PlainText(_)
PlainText(items) ==
    IF items = <<>> THEN <<>>
    ELSE Head(items).plain_text \o PlainText(Tail(items))

\* items.map((s) => s.name)
OptionNames(items) == Tabulate(LAMBDA i : items[i].name, 1, Len(items))

\* A nullable member (prop.select) is a sequence of no or one object.
extractPropertyValue(prop) ==
    CASE prop.type = "title" -> PlainText(prop.title)
      [] prop.type = "rich_text" -> PlainText(prop.rich_text)
      [] prop.type = "select" ->
            IF prop.select = <<>> THEN <<>> ELSE prop.select[1].name
      [] prop.type = "multi_select" ->
            Join(OptionNames(prop.multi_select), Chars("; "))
      [] prop.type = "checkbox" ->
            IF prop.checkbox THEN Chars("true") ELSE Chars("false")
      [] OTHER -> <<>>

----------------------------------------------------------------------------
(* csv.ts *)

\* The primary collation order of the characters that occur in property
\* names here: punctuation before digits before letters, letter case folded.
CollationOrder == <<" ", ",", "\"", "0", "1", "a", "b", "c">>

Primary(c) ==
    CHOOSE k \in 1..Len(CollationOrder) : CollationOrder[k] = LowerChar(c)

IsUpper(c) == LowerChar(c) # c

RECURSIVE ComparePrimary(_, _)
ComparePrimary(a, b) ==
    IF a = <<>> THEN (IF b = <<>> THEN 0 ELSE -1)
    ELSE IF b = <<>> THEN 1
    ELSE IF Primary(Head(a)) < Primary(Head(b)) THEN -1
    ELSE IF Primary(Head(a)) > Primary(Head(b)) THEN 1
    ELSE ComparePrimary(Tail(a), Tail(b))

\* strings that are equal up to letter case: lower case first
RECURSIVE CompareCase(_, _)
CompareCase(a, b) ==
    IF a = <<>> THEN 0
    ELSE IF Head(a) = Head(b) THEN CompareCase(Tail(a), Tail(b))
    ELSE IF IsUpper(Head(b)) THEN -1
    ELSE 1

\* a.localeCompare(b)
localeCompare(a, b) ==
    LET primary == ComparePrimary(a, b)
    IN  IF primary # 0 THEN primary ELSE CompareCase(a, b)

\* x put after the last element that does not compare greater than x
RECURSIVE Insert(_, _)
Insert(sorted, x) ==
    IF sorted = <<>> THEN <<x>>
    ELSE IF localeCompare(sorted[Len(sorted)], x) <= 0
         THEN Append(sorted, x)
         ELSE Append(Insert(SubSeq(sorted, 1, Len(sorted) - 1), x),
                     sorted[Len(sorted)])

\* others.sort((a, b) => a.localeCompare(b)): Array.prototype.sort is stable
RECURSIVE SortNames(_)
SortNames(names) ==
    IF names = <<>> THEN <<>>
    ELSE Insert(SortNames(SubSeq(names, 1, Len(names) - 1)), names[Len(names)])

\* a `string | null`
NullName == [isString |-> FALSE, value |-> <<>>]
Name(n) == [isString |-> TRUE, value |-> n]

\* the condition `titleCol ?`: null and the empty string are falsy
Truthy(v) == v.isString /\ v.value # <<>>

\* the loop of sortColumns over the schema's [name, meta] pairs
RECURSIVE SplitColumns(_, _, _)
SplitColumns(schema, titleCol, others) ==
    IF schema = <<>> THEN [titleCol |-> titleCol, others |-> others]
    ELSE IF Head(schema)[2].type = "title"
         THEN SplitColumns(Tail(schema), Name(Head(schema)[1]), others)
         ELSE SplitColumns(Tail(schema), titleCol, Append(others, Head(schema)[1]))

sortColumns(schema) ==
    Let(SplitColumns(schema, NullName, <<>>), LAMBDA cols :
        IF Truthy(cols.titleCol)
        THEN <<cols.titleCol.value>> \o SortNames(cols.others)
        ELSE SortNames(cols.others))

\* value.replace(/"/g, '""')
RECURSIVE DoubleQuotes(_)
DoubleQuotes(value) ==
    IF value = <<>> THEN <<>>
    ELSE IF Head(value) = "\"" THEN <<"\"", "\"">> \o DoubleQuotes(Tail(value))
    ELSE <<Head(value)>> \o DoubleQuotes(Tail(value))

\* escapeField without the test for a carriage return
escapeFieldNoReturn(value) ==
    IF \/ Includes(value, <<",">>)
       \/ Includes(value, <<"\n">>)
       \/ Includes(value, <<"\"">>)
    THEN <<"\"">> \o DoubleQuotes(value) \o <<"\"">>
    ELSE value

escapeField(value) ==
    IF \/ Includes(value, <<",">>)
       \/ Includes(value, <<"\n">>)
       \/ Includes(value, <<"\r">>)
       \/ Includes(value, <<"\"">>)
    THEN <<"\"">> \o DoubleQuotes(value) \o <<"\"">>
    ELSE value

\* one data row: entry.properties[colName], "" when the entry has none
RowOf(entry, columns) ==
    Tabulate(LAMBDA k :
                IF columns[k] \in DOMAIN entry.properties
                THEN escapeField(extractPropertyValue(entry.properties[columns[k]]))
                ELSE <<>>,
             1, Len(columns))

entriesToCsv(entries, schema) ==
    Let(sortColumns(schema), LAMBDA columns :
        LET header == Join(Tabulate(LAMBDA k : escapeField(columns[k]),
                                    1, Len(columns)), <<",">>)
            rows == Tabulate(LAMBDA k : Join(RowOf(entries[k], columns), <<",">>),
                             1, Len(entries))
        IN  Join(<<header>> \o rows, <<"\n">>) \o <<"\n">>)

----------------------------------------------------------------------------
(* csv.ts as a one-step machine: a schema in some iteration order and a    *)
(* few entries                                                             *)

MaxColumns == 3
MaxFieldLen == 2

ColumnNames == {<<>>, Chars("B"), Chars("a,b"), Chars("b")}
ColumnTypes == {"title", "rich_text", "select"}
CsvAlphabet == {"a", ",", "\"", "\n", "\r"}

FieldValues == UNION { [1..k -> CsvAlphabet] : k \in 0..MaxFieldLen }

\* a Map<string, meta> in iteration order: distinct names, one title at most
Schemas ==
    { s \in UNION { [1..k -> ColumnNames \X {[type |-> t] : t \in ColumnTypes}] :
                    k \in 0..MaxColumns } :
        /\ \A i, j \in 1..Len(s) : s[i][1] = s[j][1] => i = j
        /\ \A i, j \in 1..Len(s) :
              s[i][2].type = "title" /\ s[j][2].type = "title" => i = j }

\* a rich-text array whose plain text is v
RichText(v) ==
    IF v = <<>> THEN <<>>
    ELSE <<[plain_text |-> <<Head(v)>>], [plain_text |-> Tail(v)]>>

PropOf(type, v) ==
    CASE type = "title" -> [type |-> "title", title |-> RichText(v)]
      [] type = "rich_text" -> [type |-> "rich_text", rich_text |-> RichText(v)]
      [] type = "select" ->
            [type |-> "select",
             select |-> IF v = <<>> THEN <<>> ELSE <<[name |-> v]>>]

NamesOf(schema) == { schema[k][1] : k \in 1..Len(schema) }
TypeOf(schema, n) == (CHOOSE k \in 1..Len(schema) : schema[k][1] = n)

\* an entry with every property of the schema, each holding v
FullEntry(schema, v) ==
    [properties |->
        [n \in NamesOf(schema) |-> PropOf(schema[TypeOf(schema, n)][2].type, v)]]

\* an entry from before a schema change: the first property is missing, the
\* others have another type, and there is a property the schema does not have
DriftEntry(schema, v) ==
    [properties |->
        [n \in (NamesOf(schema) \ {schema[k][1] : k \in DOMAIN schema \cap {1}})
                    \cup {Chars("c")} |->
            IF n = Chars("c") THEN PropOf("rich_text", v)
            ELSE IF TypeOf(schema, n) = 2
                 THEN [type |-> "multi_select",
                       multi_select |-> <<[name |-> v], [name |-> v]>>]
                 ELSE [type |-> "checkbox", checkbox |-> v = <<>>]]]

EntryLists(schema, v) ==
    { <<>>, <<FullEntry(schema, v)>>, <<DriftEntry(schema, v), FullEntry(schema, v)>> }

InitCsv ==
    /\ Idle
    /\ pc = "entriesToCsv"
    /\ \E s \in Schemas, v \in FieldValues :
        \E es \in EntryLists(s, v) : arg = [schema |-> s, entries |-> es]
    /\ res = <<>>

EntriesToCsv ==
    /\ pc = "entriesToCsv"
    /\ res' = entriesToCsv(arg.entries, arg.schema)
    /\ pc' = "csv"
    /\ UNCHANGED <<world, reference, options, id, visited, stack, log, arg>>

NextCsv == EntriesToCsv

SpecCsv == InitCsv /\ [][NextCsv]_vars

----------------------------------------------------------------------------
(* rich-text.ts *)

\* the characters U+2192 and U+0060
RightArrow == "U+2192"
Backtick == "U+0060"

\* `${d.start} → ${d.end}` when d.end is set, d.start otherwise
DateRange(d) ==
    IF Truthy(d.end) THEN d.start \o <<" ", RightArrow, " ">> \o d.end.value
    ELSE d.start

renderMention(item) ==
    IF item.type # "mention" THEN item.plain_text
    ELSE IF item.mention.type = "date" THEN DateRange(item.mention.date)
    ELSE item.plain_text

\* applyAnnotations with the underline applied before the emphasis
applyAnnotationsUnderlineFirst(text, ann) ==
    IF text = <<>> THEN text
    ELSE IF ann.code THEN <<Backtick>> \o text \o <<Backtick>>
    ELSE LET struck == IF ann.strikethrough
                       THEN Chars("~~") \o text \o Chars("~~") ELSE text
             lined == IF ann.underline
                      THEN Chars("<u>") \o struck \o Chars("</u>") ELSE struck
         IN  IF ann.bold /\ ann.italic THEN Chars("***") \o lined \o Chars("***")
             ELSE IF ann.bold THEN Chars("**") \o lined \o Chars("**")
             ELSE IF ann.italic THEN <<"*">> \o lined \o <<"*">>
             ELSE lined

applyAnnotations(text, ann) ==
    IF text = <<>> THEN text
    ELSE IF ann.code THEN <<Backtick>> \o text \o <<Backtick>>
    ELSE LET struck == IF ann.strikethrough
                       THEN Chars("~~") \o text \o Chars("~~") ELSE text
             emphasised ==
                 IF ann.bold /\ ann.italic THEN Chars("***") \o struck \o Chars("***")
                 ELSE IF ann.bold THEN Chars("**") \o struck \o Chars("**")
                 ELSE IF ann.italic THEN <<"*">> \o struck \o <<"*">>
                 ELSE struck
         IN  IF ann.underline
             THEN Chars("<u>") \o emphasised \o Chars("</u>")
             ELSE emphasised

renderRichTextItem(item) ==
    IF item.type = "equation"
    THEN <<"$">> \o item.equation.expression \o <<"$">>
    ELSE Let(applyAnnotations(IF item.type = "text" THEN item.text.content
                                                     ELSE renderMention(item),
                              item.annotations),
             LAMBDA text :
                IF Truthy(item.href)
                THEN <<"[">> \o text \o Chars("](") \o item.href.value \o <<")">>
                ELSE text)

\* items.map(renderRichTextItem).join("")
RECURSIVE renderRichText(_)
renderRichText(items) ==
    IF items = <<>> THEN <<>>
    ELSE renderRichTextItem(Head(items)) \o renderRichText(Tail(items))

----------------------------------------------------------------------------
(* rich-text.ts as a one-step machine: one span of every kind, content,    *)
(* annotation set and link, alone or followed by a second span             *)

AnnotationSets ==
    [bold : BOOLEAN, italic : BOOLEAN, strikethrough : BOOLEAN,
     underline : BOOLEAN, code : BOOLEAN, color : {"default"}]

Plain == [bold |-> FALSE, italic |-> FALSE, strikethrough |-> FALSE,
          underline |-> FALSE, code |-> FALSE, color |-> "default"]

Contents == {<<>>, Chars("a")}
Hrefs == {NullName, Name(<<>>), Name(Chars("u"))}

TextSpan(c, ann, href) ==
    [type |-> "text", text |-> [content |-> c], plain_text |-> c,
     annotations |-> ann, href |-> href]

PageMention(c, ann, href) ==
    [type |-> "mention", mention |-> [type |-> "page"], plain_text |-> c,
     annotations |-> ann, href |-> href]

\* the display label of a date mention is served apart from its bounds
DateMention(c, end, ann, href) ==
    [type |-> "mention",
     mention |-> [type |-> "date", date |-> [start |-> c, end |-> end]],
     plain_text |-> Chars("d"), annotations |-> ann, href |-> href]

EquationSpan(c, ann, href) ==
    [type |-> "equation", equation |-> [expression |-> c], plain_text |-> c,
     annotations |-> ann, href |-> href]

Spans ==
    UNION { { TextSpan(c, ann, href), PageMention(c, ann, href),
              DateMention(c, NullName, ann, href),
              DateMention(c, Name(Chars("e")), ann, href),
              EquationSpan(c, ann, href) } :
            c \in Contents, ann \in AnnotationSets, href \in Hrefs }

SecondSpans ==
    { TextSpan(Chars("b"), [Plain EXCEPT !.bold = TRUE], NullName),
      EquationSpan(Chars("x"), Plain, NullName),
      TextSpan(<<" ">>, Plain, Name(Chars("v"))) }

InitRichText ==
    /\ Idle
    /\ pc = "renderRichText"
    /\ arg \in { <<s>> : s \in Spans } \cup (Spans \X SecondSpans)
    /\ res = <<>>

RenderRichText ==
    /\ pc = "renderRichText"
    /\ res' = renderRichText(arg)
    /\ pc' = "rendered"
    /\ UNCHANGED <<world, reference, options, id, visited, stack, log, arg>>

NextRichText == RenderRichText

SpecRichText == InitRichText /\ [][NextRichText]_vars

----------------------------------------------------------------------------
(* blocks.ts *)

Unreserved ==
    {"A", "B", "C", "a", "b", "c", "d", "e", "i", "t", "0", "1",
     "-", "_", ".", "!", "~", "*", "'", "(", ")"}

\* the UTF-8 percent code of the reserved characters that occur here
PercentCode(c) ==
    CASE c = " " -> Chars("%20")
      [] c = "/" -> Chars("%2F")
      [] c = "\"" -> Chars("%22")
      [] c = "[" -> Chars("%5B")
      [] c = "]" -> Chars("%5D")
      [] c = "|" -> Chars("%7C")
      [] OTHER -> <<c>>

RECURSIVE encodeURIComponent(_)
encodeURIComponent(s) ==
    IF s = <<>> THEN <<>>
    ELSE (IF Head(s) \in Unreserved THEN <<Head(s)>> ELSE PercentCode(Head(s)))
         \o encodeURIComponent(Tail(s))

\* an icon is no object (null, a sequence of none) or one object
renderIcon(icon) ==
    IF icon = <<>> THEN <<>>
    ELSE IF icon[1].type = "emoji" /\ "emoji" \in DOMAIN icon[1]
         THEN icon[1].emoji \o <<" ">>
         ELSE <<>>

renderImage(block) ==
    Wrap3(Chars("!["), renderRichText(block.image.caption), Chars("]("),
          IF block.image.type = "external" THEN block.image.external.url
                                           ELSE block.image.file.url,
          <<")">>)

renderFileBlock(file, label) ==
    LET caption == IF "caption" \in DOMAIN file THEN renderRichText(file.caption)
                   ELSE <<>>
        url == IF file.type = "external"
               THEN (IF "external" \in DOMAIN file THEN file.external.url ELSE <<>>)
               ELSE IF file.type = "file"
               THEN (IF "file" \in DOMAIN file THEN file.file.url ELSE <<>>)
               ELSE <<>>
        display == IF caption # <<>> THEN caption ELSE label
    IN  IF url # <<>> THEN Wrap3(<<"[">>, display, Chars("]("), url, <<")">>)
        ELSE display

\* text.replace(/\|/g, "\\|")
RECURSIVE EscapePipes(_)
EscapePipes(s) ==
    IF s = <<>> THEN <<>>
    ELSE (IF Head(s) = "|" THEN <<"\\", "|">> ELSE <<Head(s)>>)
         \o EscapePipes(Tail(s))

\* `| ${cells.join(" | ")} |`
PipeLine(cells) == Chars("| ") \o Join(cells, Chars(" | ")) \o Chars(" |")

\* the lines of renderTable for the rows from index i on
RECURSIVE TableLines(_, _)
TableLines(rows, i) ==
    IF i > Len(rows) THEN <<>>
    ELSE IF rows[i].type # "table_row" THEN TableLines(rows, i + 1)
    ELSE LET cells == Tabulate(LAMBDA k :
                                  EscapePipes(renderRichText(rows[i].table_row.cells[k])),
                               1, Len(rows[i].table_row.cells))
         IN  <<PipeLine(cells)>>
             \o (IF i = 1
                 THEN <<PipeLine(Tabulate(LAMBDA k : Chars("---"), 1, Len(cells)))>>
                 ELSE <<>>)
             \o TableLines(rows, i + 1)

renderTable(block) ==
    IF Len(block.children) = 0 THEN <<>>
    ELSE Join(TableLines(block.children, 1), <<"\n">>)

\* `> ${line}` on every line of the text
QuoteLines(text) ==
    Let(Split(text, "\n"), LAMBDA lines :
        Join(Tabulate(LAMBDA k : Chars("> ") \o lines[k], 1, Len(lines)), <<"\n">>))

Fence == <<Backtick, Backtick, Backtick>>

renderBlock(block) ==
    CASE block.type = "paragraph" -> renderRichText(block.paragraph.rich_text)
      [] block.type = "heading_1" ->
            Chars("# ") \o renderRichText(block.heading_1.rich_text)
      [] block.type = "heading_2" ->
            Chars("## ") \o renderRichText(block.heading_2.rich_text)
      [] block.type = "heading_3" ->
            Chars("### ") \o renderRichText(block.heading_3.rich_text)
      [] block.type = "bulleted_list_item" ->
            Chars("- ") \o renderRichText(block.bulleted_list_item.rich_text)
      [] block.type = "numbered_list_item" ->
            Chars("1. ") \o renderRichText(block.numbered_list_item.rich_text)
      [] block.type = "to_do" ->
            Chars("- ") \o (IF block.to_do.checked THEN Chars("[x]") ELSE Chars("[ ]"))
                \o <<" ">> \o renderRichText(block.to_do.rich_text)
      [] block.type = "code" ->
            LET lang == IF block.code.language # Chars("plain text")
                        THEN block.code.language ELSE <<>>
                caption == renderRichText(block.code.caption)
                result == Fence \o lang \o <<"\n">>
                            \o renderRichText(block.code.rich_text) \o <<"\n">> \o Fence
            IN  IF caption # <<>>
                THEN result \o <<"\n", "*">> \o caption \o <<"*">>
                ELSE result
      [] block.type = "quote" -> QuoteLines(renderRichText(block.quote.rich_text))
      [] block.type = "callout" ->
            Chars("> ") \o renderIcon(block.callout.icon)
                \o renderRichText(block.callout.rich_text)
      [] block.type = "divider" -> Chars("---")
      [] block.type = "image" -> renderImage(block)
      [] block.type = "video" -> renderFileBlock(block.video, Chars("video"))
      [] block.type = "audio" -> renderFileBlock(block.audio, Chars("audio"))
      [] block.type = "file" -> renderFileBlock(block.file, Chars("file"))
      [] block.type = "pdf" -> renderFileBlock(block.pdf, Chars("pdf"))
      [] block.type = "bookmark" ->
            LET caption == renderRichText(block.bookmark.caption)
            IN  Wrap3(<<"[">>, IF caption # <<>> THEN caption ELSE block.bookmark.url,
                      Chars("]("), block.bookmark.url, <<")">>)
      [] block.type = "embed" ->
            LET caption == renderRichText(block.embed.caption)
            IN  Wrap3(<<"[">>, IF caption # <<>> THEN caption ELSE Chars("embed"),
                      Chars("]("), block.embed.url, <<")">>)
      [] block.type = "link_preview" ->
            Wrap3(<<"[">>, block.link_preview.url, Chars("]("),
                  block.link_preview.url, <<")">>)
      [] block.type = "toggle" ->
            Chars("**") \o renderRichText(block.toggle.rich_text) \o Chars("**")
      [] block.type = "equation" ->
            Chars("$$\n") \o block.equation.expression \o Chars("\n$$")
      [] block.type = "table" -> renderTable(block)
      [] block.type = "table_of_contents" -> Chars("<!-- table of contents -->")
      [] block.type = "breadcrumb" -> <<>>
      [] block.type = "column_list" -> <<>>
      [] block.type = "column" -> <<>>
      [] block.type = "child_page" ->
            Chars("**[") \o block.child_page.title \o Chars("](./")
                \o encodeURIComponent(block.child_page.title) \o Chars(".md)**")
      [] block.type = "child_database" ->
            Chars("**[") \o block.child_database.title \o Chars("](./")
                \o encodeURIComponent(block.child_database.title)
                \o Chars("/_index.csv)**")
      [] block.type = "synced_block" -> <<>>
      [] OTHER -> Chars("<!-- unsupported: ") \o Chars(block.type) \o Chars(" -->")

isListItem(type) ==
    type \in {"bulleted_list_item", "numbered_list_item", "to_do"}

----------------------------------------------------------------------------
(* blocks.ts as a one-step machine: one block of every kind and payload    *)

Txt(s) == <<TextSpan(Chars(s), Plain, NullName)>>

RichTexts == {<<>>, Txt("a"), Txt("a\nb"), <<TextSpan(<<>>, Plain, NullName)>>}
Captions == {<<>>, Txt("c"), <<TextSpan(<<>>, Plain, NullName)>>}
Urls == {Chars("u")}

TextKinds ==
    {"paragraph", "heading_1", "heading_2", "heading_3", "bulleted_list_item",
     "numbered_list_item", "quote", "toggle"}

FileKinds == {"video", "audio", "file", "pdf"}

StructuralKinds ==
    {"table_of_contents", "breadcrumb", "column_list", "column", "synced_block"}

\* kinds that renderBlock has no case for
OtherKinds == {"table_row", "template", "link_to_page", "unsupported"}

\* a block whose payload, under the name of its kind, is `payload`
Block(kind, payload, children) ==
    [type |-> kind, children |-> children] @@
    CASE kind = "paragraph" -> [paragraph |-> payload]
      [] kind = "heading_1" -> [heading_1 |-> payload]
      [] kind = "heading_2" -> [heading_2 |-> payload]
      [] kind = "heading_3" -> [heading_3 |-> payload]
      [] kind = "bulleted_list_item" -> [bulleted_list_item |-> payload]
      [] kind = "numbered_list_item" -> [numbered_list_item |-> payload]
      [] kind = "to_do" -> [to_do |-> payload]
      [] kind = "code" -> [code |-> payload]
      [] kind = "quote" -> [quote |-> payload]
      [] kind = "callout" -> [callout |-> payload]
      [] kind = "toggle" -> [toggle |-> payload]
      [] kind = "image" -> [image |-> payload]
      [] kind = "video" -> [video |-> payload]
      [] kind = "audio" -> [audio |-> payload]
      [] kind = "file" -> [file |-> payload]
      [] kind = "pdf" -> [pdf |-> payload]
      [] kind = "bookmark" -> [bookmark |-> payload]
      [] kind = "embed" -> [embed |-> payload]
      [] kind = "link_preview" -> [link_preview |-> payload]
      [] kind = "equation" -> [equation |-> payload]
      [] kind = "table_row" -> [table_row |-> payload]
      [] kind = "child_page" -> [child_page |-> payload]
      [] kind = "child_database" -> [child_database |-> payload]
      [] OTHER -> [payload |-> payload]

\* the external or the hosted-file variant of a media payload
Media(variant, caption, url) ==
    IF variant = "external"
    THEN [type |-> "external", caption |-> caption, external |-> [url |-> url]]
    ELSE [type |-> "file", caption |-> caption, file |-> [url |-> url]]

Icons ==
    {<<>>, <<[type |-> "emoji", emoji |-> <<"E">>]>>,
     <<[type |-> "external", external |-> [url |-> Chars("u")]]>>}

TableRow(cells) == Block("table_row", [cells |-> cells], <<>>)

Tables ==
    { Block("table", [has_column_header |-> TRUE], rows) :
        rows \in { <<>>, <<TableRow(<<Txt("a"), Txt("b|c")>>)>>,
                   <<TableRow(<<Txt("a")>>), TableRow(<<Txt("b")>>)>> } }

SingleBlocks ==
    { Block(k, [rich_text |-> rt], <<>>) : k \in TextKinds, rt \in RichTexts }
    \cup { Block("to_do", [rich_text |-> rt, checked |-> c], <<>>) :
            rt \in RichTexts, c \in BOOLEAN }
    \cup { Block("code", [rich_text |-> rt, caption |-> cap, language |-> Chars(l)], <<>>) :
            rt \in {<<>>, Txt("a")}, cap \in Captions, l \in {"plain text", "c"} }
    \cup { Block("callout", [rich_text |-> rt, icon |-> icon], <<>>) :
            rt \in RichTexts, icon \in Icons }
    \cup { Block(k, Media(v, cap, u), <<>>) :
            k \in FileKinds \cup {"image"}, v \in {"external", "file"},
            cap \in Captions, u \in Urls }
    \cup { Block(k, [caption |-> cap, url |-> u], <<>>) :
            k \in {"bookmark", "embed"}, cap \in Captions, u \in Urls }
    \cup { Block("link_preview", [url |-> u], <<>>) : u \in Urls }
    \cup { Block("equation", [expression |-> e], <<>>) : e \in {<<>>, Chars("e")} }
    \cup { Block(k, [title |-> Chars(t)], <<>>) :
            k \in {"child_page", "child_database"}, t \in {"", "A", "A b/c"} }
    \cup { Block(k, <<>>, <<>>) : k \in StructuralKinds \cup OtherKinds \cup {"divider"} }
    \cup Tables

InitBlock ==
    /\ Idle
    /\ pc = "renderBlock"
    /\ arg \in SingleBlocks
    /\ res = <<>>

RenderBlock ==
    /\ pc = "renderBlock"
    /\ res' = renderBlock(arg)
    /\ pc' = "block rendered"
    /\ UNCHANGED <<world, reference, options, id, visited, stack, log, arg>>

NextBlock == RenderBlock

SpecBlock == InitBlock /\ [][NextBlock]_vars

----------------------------------------------------------------------------
(* markdown.ts *)

\* getPageTitle on a page object whose properties are listed in
\* Object.values order
RECURSIVE PageTitle(_)
PageTitle(properties) ==
    IF properties = <<>> THEN Chars("Untitled")
    ELSE IF Head(properties).type = "title" /\ Len(Head(properties).title) > 0
         THEN PlainText(Head(properties).title)
         ELSE PageTitle(Tail(properties))

\* s.replace(/\\/g, "\\\\").replace(/"/g, '\\"')
RECURSIVE escapeYaml(_)
escapeYaml(s) ==
    IF s = <<>> THEN <<>>
    ELSE (IF Head(s) = "\\" THEN <<"\\", "\\">>
          ELSE IF Head(s) = "\"" THEN <<"\\", "\"">>
          ELSE <<Head(s)>>) \o escapeYaml(Tail(s))

buildFrontmatter(page) ==
    Join(<<Chars("---"),
           Chars("title: \"") \o escapeYaml(PageTitle(page.properties)) \o <<"\"">>,
           Chars("created: ") \o page.created_time,
           Chars("last_edited: ") \o page.last_edited_time,
           Chars("---"),
           <<>>>>, <<"\n">>)

indentLines(text, indent) ==
    IF indent = <<>> THEN text
    ELSE Let(Split(text, "\n"), LAMBDA lines :
            Join(Tabulate(LAMBDA k : IF lines[k] # <<>> THEN indent \o lines[k]
                                                          ELSE lines[k],
                          1, Len(lines)), <<"\n">>))

IndentWidth == 4

\* the loop of renderBlocks from block i on, `lines` being what is pushed so far
RECURSIVE RenderFrom(_, _, _, _)
RenderFrom(blocks, depth, i, lines) ==
    IF i > Len(blocks) THEN Join(lines, <<"\n">>)
    ELSE
    Let(blocks[i], LAMBDA block :
    Let(Repeat(" ", IndentWidth * depth), LAMBDA indent :
      IF block.type = "table"
      THEN RenderFrom(blocks, depth, i + 1,
                      lines \o <<indentLines(renderBlock(block), indent), <<>>>>)
      ELSE
      Let(renderBlock(block), LAMBDA rendered :
        LET hasContent == Len(rendered) > 0
            isList == isListItem(block.type)
            prevIsList == IF i > 1 THEN isListItem(blocks[i - 1].type) ELSE FALSE
            needsBlankBefore == hasContent /\ ~(isList /\ prevIsList)
            spaced == IF needsBlankBefore /\ Len(lines) > 0 /\ lines[Len(lines)] # <<>>
                      THEN Append(lines, <<>>)
                      ELSE lines
            own == IF hasContent THEN Append(spaced, indentLines(rendered, indent))
                   ELSE spaced
            childDepth == IF isList \/ block.type = "toggle" \/ block.type = "callout"
                          THEN depth + 1
                          ELSE depth
        IN  IF Len(block.children) > 0
            THEN Let(RenderFrom(block.children, childDepth, 1, <<>>), LAMBDA childMd :
                    RenderFrom(blocks, depth, i + 1,
                               IF Trim(childMd) # <<>> THEN Append(own, childMd)
                                                       ELSE own))
            ELSE RenderFrom(blocks, depth, i + 1, own))))

renderBlocks(blocks, depth) == RenderFrom(blocks, depth, 1, <<>>)

\* text.replace(/\n{3,}/g, "\n\n"): of each run of line feeds the first two stay
CollapseNewlines(s) ==
    Let(s, LAMBDA t :
        LET kept == SelectSeq([i \in 1..Len(t) |-> i],
                              LAMBDA i : ~(/\ i > 2
                                           /\ t[i] = "\n"
                                           /\ t[i - 1] = "\n"
                                           /\ t[i - 2] = "\n"))
        IN  [k \in 1..Len(kept) |-> t[kept[k]]])

\* blocksToMarkdown without the collapse of newline runs
blocksToMarkdownUncollapsed(blocks, page) ==
    LET parts == (IF page # <<>> THEN <<buildFrontmatter(page[1])>> ELSE <<>>)
                    \o <<renderBlocks(blocks, 0)>>
    IN  TrimEnd(Join(parts, <<"\n">>)) \o <<"\n">>

\* the optional page is a sequence of no or one page object
blocksToMarkdown(blocks, page) ==
    LET parts == (IF page # <<>> THEN <<buildFrontmatter(page[1])>> ELSE <<>>)
                    \o <<renderBlocks(blocks, 0)>>
    IN  TrimEnd(CollapseNewlines(Join(parts, <<"\n">>))) \o <<"\n">>

----------------------------------------------------------------------------
(* markdown.ts as a one-step machine: a block tree of up to MaxBlocks      *)
(* top-level blocks, one of which may have children, and an optional page. *)
(* Every block carries its own one-character text.                         *)

MaxBlocks == 3

TreeKinds ==
    {"paragraph", "heading_1", "bulleted_list_item", "to_do", "toggle",
     "table", "column_list", "empty"}

\* a block of the kind with the text `mark` and the given children
Marked(kind, mark, children) ==
    CASE kind = "empty" -> Block("paragraph", [rich_text |-> <<>>], children)
      [] kind = "to_do" ->
            Block("to_do", [rich_text |-> Txt(mark), checked |-> FALSE], children)
      [] kind = "table" ->
            Block("table", [has_column_header |-> TRUE], <<TableRow(<<Txt(mark)>>)>>)
      [] kind = "column_list" -> Block("column_list", <<>>, children)
      [] OTHER -> Block(kind, [rich_text |-> Txt(mark)], children)

ChildLists ==
    { <<>>,
      <<Marked("paragraph", "x", <<>>)>>,
      <<Marked("bulleted_list_item", "x", <<>>), Marked("bulleted_list_item", "y", <<>>)>>,
      <<Marked("table", "x", <<>>)>>,
      <<Marked("column_list", "x", <<Marked("paragraph", "z", <<>>)>>)>>,
      <<Marked("bulleted_list_item", "x", <<Marked("bulleted_list_item", "z", <<>>)>>),
        Marked("heading_1", "y", <<>>)>>,
      <<Marked("empty", "x", <<>>)>> }

Marks == <<"1", "2", "3", "4">>

\* the tree of the kinds `shape`, the block at index `at` having `children`
Tree(shape, at, children) ==
    Tabulate(LAMBDA k : Marked(shape[k], Marks[k], IF k = at THEN children ELSE <<>>),
             1, Len(shape))

Trees ==
    { Tree(shape, at, children) :
        shape \in UNION { [1..n -> TreeKinds] : n \in 0..MaxBlocks },
        at \in 1..MaxBlocks, children \in ChildLists }

TitleProp(t) == [type |-> "title", title |-> RichText(t)]

MdPages ==
    { <<>> } \cup
    { <<[properties |-> props, created_time |-> Chars("T1"),
         last_edited_time |-> Chars("T2")]>> :
        props \in { <<TitleProp(Chars("T"))>>,
                    <<PropOf("select", <<>>), TitleProp(Chars("a\"\\"))>>,
                    <<TitleProp(<<>>)>> } }

InitMarkdown ==
    /\ Idle
    /\ pc = "blocksToMarkdown"
    /\ arg \in [blocks : Trees, page : MdPages]
    /\ res = <<>>

BlocksToMarkdown ==
    /\ pc = "blocksToMarkdown"
    /\ res' = blocksToMarkdown(arg.blocks, arg.page)
    /\ pc' = "markdown"
    /\ UNCHANGED <<world, reference, options, id, visited, stack, log, arg>>

NextMarkdown == BlocksToMarkdown

SpecMarkdown == InitMarkdown /\ [][NextMarkdown]_vars

----------------------------------------------------------------------------
(* The do-while loops of fetchBlockChildren and queryAllEntries as a        *)
(* machine: the API serves a listing in pages, one request per step         *)

MaxPages == 3
MaxPageItems == 2

\* the listing of a block and the result of a query, before they are paged
BlockPool ==
    <<Blk(Para2, "paragraph", FALSE), PartialBlk(Part3), Blk(Toggle1, "toggle", TRUE),
      Blk(PageD, "child_page", TRUE), Blk(Column4, "column", TRUE),
      Blk(Page9, "child_page", FALSE)>>

RowPool ==
    <<Row(EntryE), PartialRow(Part3), Row(EntryF), Row(Entry8), Row(PageD), Row(Page9)>>

\* the workspace that serves the listings of the nested blocks
PagedWorld ==
    MakeWorld(<<Blk(Para2, "paragraph", FALSE)>>,
              <<Blk(PageC, "child_page", TRUE), Blk(DbB, "child_database", FALSE)>>,
              [a |-> <<>>, b |-> <<>>], "distinct")

\* pool cut into pages of the given sizes, from item `from` on; the pages
\* past the end of the pool are empty
RECURSIVE PagesOf(_, _, _)
PagesOf(pool, sizes, from) ==
    IF sizes = <<>> THEN <<>>
    ELSE <<Slice(pool, from - 1, from + Head(sizes) - 1)>>
         \o PagesOf(pool, Tail(sizes), from + Head(sizes))

PageSizes == UNION { [1..n -> 0..MaxPageItems] : n \in 1..MaxPages }

\* the cursor that asks for page k
CursorOf(k) == <<"p", Digit(k)>>

\* the response to a request: the first page without a cursor, else the page
\* the cursor asks for; has_more and next_cursor while a page is left
Serve(pages, cursor) ==
    LET k == IF cursor.isString
             THEN CHOOSE n \in 1..Len(pages) : CursorOf(n) = cursor.value
             ELSE 1
    IN  [results |-> pages[k],
         has_more |-> k < Len(pages),
         next_cursor |-> IF k < Len(pages) THEN Name(CursorOf(k + 1)) ELSE NullName]

InitPages ==
    /\ Idle
    /\ pc = "list"
    /\ \E fn \in {"fetchBlockChildren", "queryAllEntries"}, sizes \in PageSizes :
          arg = [fn |-> fn,
                 pages |-> PagesOf(IF fn = "fetchBlockChildren" THEN BlockPool
                                                                 ELSE RowPool,
                                   sizes, 1)]
    /\ res = [cursor |-> NullName, items |-> <<>>, requests |-> <<>>]

\* ListNextPage that returns after the first response
ListFirstPageOnly ==
    /\ pc = "list"
    /\ \E response \in {Serve(arg.pages, res.cursor)} :
        /\ res' = [cursor |-> NullName,
                   items |-> res.items \o
                       (IF arg.fn = "fetchBlockChildren"
                        THEN AttachChildren(PagedWorld, response.results, 1)
                        ELSE queryAllEntries(response.results)),
                   requests |-> Append(res.requests, res.cursor)]
        /\ pc' = "listed"
    /\ UNCHANGED <<world, reference, options, id, visited, stack, log, arg>>

\* one turn of the do-while loop: the request with start_cursor, the results
\* kept, cursor = has_more ? (next_cursor ?? undefined) : undefined,
\* while (cursor)
ListNextPage ==
    /\ pc = "list"
    /\ \E response \in {Serve(arg.pages, res.cursor)} :
        \E cursor \in {IF response.has_more THEN response.next_cursor ELSE NullName} :
            /\ res' = [cursor |-> cursor,
                       items |-> res.items \o
                           (IF arg.fn = "fetchBlockChildren"
                            THEN AttachChildren(PagedWorld, response.results, 1)
                            ELSE queryAllEntries(response.results)),
                       requests |-> Append(res.requests, res.cursor)]
            /\ pc' = IF Truthy(cursor) THEN "list" ELSE "listed"
    /\ UNCHANGED <<world, reference, options, id, visited, stack, log, arg>>

NextPages == ListNextPage

SpecPages == InitPages /\ [][NextPages]_vars

----------------------------------------------------------------------------
(* Properties of the traversal *)

Ended == pc \in {"done", "failed"}

PullFetches == {"fetchPage", "databases.retrieve", "dataSources.retrieve",
                "queryAllEntries", "fetchBlockChildren"}

IsWrite(ev) == ev.by = "writeOutputFile"
IsPullFetch(ev) == ev.by \in PullFetches

\* the entries of the root when the root is a database
RootEntries ==
    IF IsDatabase(world, id) THEN queryAllEntries(world.rows[Canon(id)]) ELSE <<>>

InSeq(x, xs) == \E k \in DOMAIN xs : xs[k] = x

\* C1: every run ends: whatever the graph (child and relation cycles, a
\* self-relation) and the initial depth, run() returns or rejects.
C1_RunEnds == <>Ended

\* C1, a state where it applies: a run over the relation cycle A -> B -> A, started at A with the
\* largest depth, has returned after pulling both databases.
C1_CycleRunReturned ==
    /\ pc = "done"
    /\ options.depth = MaxDepth
    /\ Canon(id) = DbA
    /\ findRelationTargets(world.properties[DbB]) # <<>>
    /\ \E k \in DOMAIN log : log[k].by = "databases.retrieve" /\ log[k].id = DbB

\* C2: within one run no page or database is fetched twice and no resource has
\* its output file written twice.
C2_AtMostOnce ==
    \A i, j \in DOMAIN log :
        (i < j /\ log[i].by = log[j].by
               /\ log[i].by \in {"fetchPage", "databases.retrieve", "writeOutputFile"})
            => Canon(log[i].id) # Canon(log[j].id)

\* C3: with depth 0 only the root (and, for a database, its own entries) is
\* fetched and written, and a run that returns has written the root in full.
C3_DepthZeroOnlyRoot ==
    options.depth = 0 =>
        /\ \A k \in DOMAIN log :
              (IsPullFetch(log[k]) \/ IsWrite(log[k]))
                  => log[k].id = id \/ InSeq(log[k].id, RootEntries)
        /\ pc = "done" =>
              /\ \E k \in DOMAIN log :
                    /\ IsWrite(log[k]) /\ log[k].id = id
                    /\ log[k].content =
                          IF IsPage(world, id)
                          THEN Ids(fetchBlockChildren(world, id))
                          ELSE RootEntries
              /\ \A e \in DOMAIN RootEntries :
                    fetchBlockChildren(world, RootEntries[e]) # <<>> =>
                        \E k \in DOMAIN log :
                            /\ IsWrite(log[k]) /\ log[k].id = RootEntries[e]
                            /\ log[k].content =
                                  Ids(fetchBlockChildren(world, RootEntries[e]))

\* C3, a state where it applies: a depth-0 run on database A, which has relations and an entry
\* holding a child page and a child database, has returned.
C3_DepthZeroDatabaseDone ==
    /\ pc = "done"
    /\ options.depth = 0
    /\ Canon(id) = DbA
    /\ findRelationTargets(world.properties[DbA]) # <<>>
    /\ pullChildResources(fetchBlockChildren(world, EntryE)) # <<>>

\* C4: two distinct resources written in one run are written to different paths.
C4_DisjointPaths ==
    \A i, j \in DOMAIN log :
        (i < j /\ IsWrite(log[i]) /\ IsWrite(log[j])
               /\ Canon(log[i].id) # Canon(log[j].id))
            => log[i].path # log[j].path

Failed(ev) == IsPullFetch(ev) /\ ev.result # "ok"

\* C5: a failed fetch inside pullPage/pullDatabase is the last thing the run
\* does, run() rejects, and the resource whose fetch failed has no output file.
C5_FailFast ==
    \A k \in DOMAIN log :
        Failed(log[k]) =>
            /\ k = Len(log)
            /\ pc = "failed"
            /\ \A j \in DOMAIN log :
                  IsWrite(log[j]) => Canon(log[j].id) # Canon(log[k].id)

\* the identifiers of the partial blocks and rows the workspace serves
PartialIds == {Part3}

MetPartial(ev) == ev.result = "partial" \/ ev.dropped # <<>>

\* C6 as stated: every fetch that met a partial object (page, database, data
\* source, row or block) ends the run in an error.
C6_AnyPartialFails ==
    \A k \in DOMAIN log :
        (IsPullFetch(log[k]) /\ MetPartial(log[k])) => Failed(log[k]) /\ pc = "failed"

\* C6 amended: a partial page, database or data source ends the run in an error
\* with nothing written after it; a partial block or row is skipped without an
\* error, and every document written leaves it out and keeps the full items.
C6_PartialObjectFailsItemSkipped ==
    /\ \A k \in DOMAIN log :
          log[k].result = "partial" => k = Len(log) /\ pc = "failed"
    /\ \A k \in DOMAIN log :
          (IsPullFetch(log[k]) /\ log[k].dropped # <<>>) =>
              /\ log[k].result = "ok"
              /\ \A d \in DOMAIN log[k].dropped : log[k].dropped[d] \in PartialIds
              /\ \A c \in DOMAIN log[k].content : log[k].content[c] \notin PartialIds
    /\ \A k \in DOMAIN log :
          IsWrite(log[k]) =>
              \A c \in DOMAIN log[k].content : log[k].content[c] \notin PartialIds

\* C6, a state where it applies: a Markdown file was written for a page whose block listing held a
\* partial block, and the CSV of a database whose query held a partial row.
C6_WrittenWithoutPartial ==
    /\ \E k \in DOMAIN log :
          /\ IsWrite(log[k]) /\ IsPage(world, log[k].id)
          /\ Skipped(world, log[k].id) # <<>>
    /\ \E k \in DOMAIN log :
          /\ IsWrite(log[k]) /\ IsDatabase(world, log[k].id)
          /\ SkippedRows(world.rows[Canon(log[k].id)]) # <<>>
    /\ \E k \in DOMAIN log : log[k].result = "partial"

InvalidReferences ==
    { Chars("Home"), Chars("https://example.com/") \o Repeat("a", UuidBareLen) }

NoToken == options.token = Undefined /\ options.env = Undefined

\* C7: an input of no accepted shape, or no token at all, ends run() in an error
\* before any gateway call and before any write.
C7_RejectedBeforeAnyCall ==
    (pc # "start" /\ (reference \in InvalidReferences \/ NoToken)) =>
        pc = "failed" /\ log = <<>> /\ stack = <<>> /\ visited = {}

\* C7, a state where it applies: run() has rejected a malformed reference, no call made.
C7_MalformedRejected ==
    pc = "failed" /\ reference \in InvalidReferences /\ ~NoToken /\ log = <<>>

----------------------------------------------------------------------------
(* Properties of the depth budget *)

\* the child pages and child databases of the block tree under blockId
ChildIds(w, blockId) ==
    Let(pullChildResources(fetchBlockChildren(w, blockId)), LAMBDA calls :
        { calls[k].id : k \in 1..Len(calls) })

\* the resources one crossing away from r: for a page the child pages and
\* child databases of its tree; for a database its relation targets and the
\* child resources of its entries
Crossings(w, r) ==
    IF r \in DbIds
    THEN { Canon(findRelationTargets(w.properties[r])[k].targetDatabaseId) :
             k \in 1..Len(findRelationTargets(w.properties[r])) }
         \cup UNION { ChildIds(w, queryAllEntries(w.rows[r])[k]) :
                        k \in 1..Len(queryAllEntries(w.rows[r])) }
    ELSE ChildIds(w, r)

\* the resources at most n crossings away from r
RECURSIVE Within(_, _, _)
Within(w, r, n) ==
    {r} \cup (IF n = 0 THEN {}
              ELSE UNION { Within(w, c, n - 1) : c \in Crossings(w, r) })

\* C17: the remaining depth of every pullPage, pullDatabase and
\* pullChildResources call is in 0..D; a resource pulled with remaining depth m
\* is at most D - m crossings away from the root; pullChildResources runs with
\* one less than its caller and hands its own remaining depth to every child
\* resource of the tree, nested or not.
C17_DepthWithinBudget ==
    /\ \A k \in 1..Len(stack) :
        LET f == stack[k]
        IN  /\ f.maxDepth \in 0..options.depth
            /\ f.fn \in {"pullPage", "pullDatabase"} =>
                  Canon(f.id) \in Within(world, Canon(id), options.depth - f.maxDepth)
            /\ f.fn = "pullChildResources" =>
                  k > 1 /\ f.maxDepth = stack[k - 1].maxDepth - 1
            /\ k > 1 /\ stack[k - 1].fn = "pullChildResources" =>
                  f.maxDepth = stack[k - 1].maxDepth
            /\ k > 1 /\ f.fn = "pullDatabase" /\ stack[k - 1].fn = "pullDatabase" =>
                  f.maxDepth = stack[k - 1].maxDepth - 1
    /\ \A k \in 1..Len(log) :
        log[k].by \in {"fetchPage", "databases.retrieve"} =>
            Canon(log[k].id) \in Within(world, Canon(id), options.depth)

\* C17, a state where it applies: from root page c with depth 2, database b is
\* being pulled with no depth left, as the child of page d, which is a block
\* nested in a toggle of c
C17_NestedChainAtDepthZero ==
    /\ options.depth = 2
    /\ Canon(id) = PageC
    /\ PageD \notin { world.kids[PageC][k].id : k \in 1..Len(world.kids[PageC]) }
    /\ Len(stack) = 5
    /\ stack[3].fn = "pullPage" /\ stack[3].id = PageD /\ stack[3].maxDepth = 1
    /\ stack[5].fn = "pullDatabase" /\ stack[5].id = DbB /\ stack[5].maxDepth = 0

----------------------------------------------------------------------------
(* Properties of the block tree *)

\* the full objects among the results of a listing
RECURSIVE FullItems(_)
FullItems(results) ==
    IF results = <<>> THEN <<>>
    ELSE (IF Head(results).full THEN <<Head(results)>> ELSE <<>>)
         \o FullItems(Tail(results))

\* `blocks` is the tree of the listing of parent: its blocks are the full
\* blocks served for parent, in order; a child_page or child_database block has
\* no children; any other block served with has_children has the tree of its
\* own listing, and a block served without has_children has none
RECURSIVE IsTreeOf(_, _, _)
IsTreeOf(w, blocks, parent) ==
    \E served \in {FullItems(w.kids[Canon(parent)])} :
        /\ Len(blocks) = Len(served)
        /\ \A k \in 1..Len(blocks) :
            /\ blocks[k].id = served[k].id
            /\ blocks[k].type = served[k].type
            /\ IF served[k].type \in {"child_page", "child_database"}
               THEN blocks[k].children = <<>>
               ELSE IF served[k].has_children
               THEN IsTreeOf(w, blocks[k].children, served[k].id)
               ELSE blocks[k].children = <<>>

\* the blocks of a tree, each before its children
RECURSIVE PreOrder(_)
PreOrder(blocks) ==
    IF blocks = <<>> THEN <<>>
    ELSE <<Head(blocks)>> \o PreOrder(Head(blocks).children) \o PreOrder(Tail(blocks))

\* the block a frame's tree was listed for: the page, or the entry at hand
TreeOwner(f) ==
    IF f.fn = "pullDatabase" THEN f.data.entries[f.i] ELSE f.id

\* the frame holds the tree just fetched (pullDatabase keeps the last entry's
\* tree while it moves on to the next entry)
HoldsTree(f) ==
    /\ f.blocks # <<>>
    /\ f.fn = "pullDatabase" => f.at = "entry.writeOutputFile"

\* C18: in a tree returned by fetchBlockChildren a child_page or
\* child_database block has no children, even when served with has_children;
\* every other full block served with has_children has its whole subtree, at
\* every nesting level; pullChildResources finds every child_page and
\* child_database block of the tree, at every nesting level.
C18_TreeWholeChildResourcesLeaves ==
    \A k \in 1..Len(stack) :
        HoldsTree(stack[k]) =>
            /\ IsTreeOf(world, stack[k].blocks, TreeOwner(stack[k]))
            /\ \E found \in {pullChildResources(stack[k].blocks)} :
                 \E nodes \in {SelectSeq(PreOrder(stack[k].blocks),
                                         LAMBDA b : b.type \in {"child_page",
                                                                "child_database"})} :
                    /\ Len(found) = Len(nodes)
                    /\ \A n \in 1..Len(nodes) :
                          found[n].id = nodes[n].id /\ found[n].type = nodes[n].type

\* C18, a state where it applies: pullChildResources runs on the tree of page c,
\* where a toggle holds a child page served with has_children and a child
\* database, and a column holds a partial block
C18_NestedChildPageFound ==
    /\ Len(stack) > 1
    /\ Top.fn = "pullChildResources"
    /\ Canon(Top.id) = PageC
    /\ Len(Top.blocks) = 2
    /\ Top.blocks[2].type = "toggle"
    /\ Len(Top.blocks[2].children) = 2
    /\ Top.blocks[2].children[1].type = "child_page"
    /\ Top.blocks[2].children[1].children = <<>>
    /\ world.kids[PageD] # <<>>
    /\ Top.i = 2

----------------------------------------------------------------------------
(* Properties of the order of events *)

WrittenFor(i) == \E k \in 1..Len(log) : IsWrite(log[k]) /\ log[k].id = i

ListedFor(i) ==
    \E k \in 1..Len(log) :
        log[k].by = "fetchBlockChildren" /\ log[k].id = i /\ log[k].result = "ok"

\* the event after a successful fetch: the block listing after the page, the
\* page's write after its listing, the CSV write after the query, an entry's
\* write after its listing when that is not empty and no write of it otherwise
LogInOrder ==
    \A k \in 1..(Len(log) - 1) :
        LET ev == log[k]
            next == log[k + 1]
            ofPage == /\ k > 1
                      /\ log[k - 1].by = "fetchPage"
                      /\ log[k - 1].id = ev.id
        IN  ev.result = "ok" =>
            /\ ev.by = "fetchPage" =>
                  next.by = "fetchBlockChildren" /\ next.id = ev.id
            /\ ev.by = "queryAllEntries" => IsWrite(next) /\ next.id = ev.id
            /\ ev.by = "fetchBlockChildren" =>
                  IF ofPage \/ ev.content # <<>>
                  THEN IsWrite(next) /\ next.id = ev.id
                  ELSE ~(IsWrite(next) /\ next.id = ev.id)

\* child resources are pulled for a page or an entry that is written; an entry's
\* child resources are pulled while the database is at that entry; a relation
\* target is pulled when every entry has been listed
FramesInOrder ==
    \A k \in 1..Len(stack) :
        LET f == stack[k]
        IN  /\ f.fn = "pullChildResources" => WrittenFor(f.id)
            /\ f.fn = "pullDatabase"
                 /\ f.at \in {"entries", "entry.writeOutputFile", "relations"} =>
                  WrittenFor(f.id)
            /\ f.fn = "pullDatabase" /\ f.at = "relations" =>
                  \A e \in 1..Len(f.data.entries) : ListedFor(f.data.entries[e])
            /\ k < Len(stack) /\ f.fn = "pullDatabase" =>
                  IF stack[k + 1].fn = "pullDatabase"
                  THEN f.at = "relations"
                  ELSE /\ stack[k + 1].fn = "pullChildResources"
                       /\ f.at = "entries"
                       /\ stack[k + 1].id = f.data.entries[f.i - 1]

\* a step of the entries loop lists the entry at hand and moves on by one
\* entry at most; a step at a relation whose target is in the visited set
\* makes no call
StepInOrder ==
    /\ \A k \in 1..Len(stack) :
        (/\ k <= Len(stack')
         /\ stack[k].fn = "pullDatabase" /\ stack'[k].fn = "pullDatabase"
         /\ stack[k].at \in {"entries", "entry.writeOutputFile"}
         /\ stack'[k].at \in {"entries", "entry.writeOutputFile"})
        => stack'[k].i \in {stack[k].i, stack[k].i + 1}
    /\ (/\ stack # <<>>
        /\ Top.fn = "pullDatabase" /\ Top.at = "entries"
        /\ log' # log)
        => /\ Len(log') = Len(log) + 1
           /\ log'[Len(log')].by = "fetchBlockChildren"
           /\ log'[Len(log')].id = Top.data.entries[Top.i]
    /\ (/\ stack # <<>>
        /\ Top.fn = "pullDatabase" /\ Top.at = "relations"
        /\ Top.maxDepth > 0
        /\ Top.i <= Len(Top.data.relations)
        /\ Top.data.relations[Top.i].targetDatabaseId \in visited)
        => log' = log /\ visited' = visited /\ Len(stack') = Len(stack)

\* C20: pullPage writes the page before it pulls a child resource;
\* pullDatabase writes the CSV before it lists an entry, writes an entry (only
\* one with a non-empty tree) before it pulls its child resources, takes the
\* entries one at a time in row order, and pulls relation targets only after
\* the entries; a relation target in the visited set is skipped without a
\* fetch.
C20_EventsInOrder == [](LogInOrder /\ FramesInOrder) /\ [][StepInOrder]_vars

\* C20, a state where it applies: database A has written its CSV and the
\* document of entry e, has listed the empty entry f without writing it, and
\* is now pulling its relation target B
C20_RelationAfterEntries ==
    /\ Len(stack) = 2
    /\ stack[1].fn = "pullDatabase" /\ stack[1].at = "relations"
    /\ stack[2].fn = "pullDatabase" /\ Canon(stack[2].id) = DbB
    /\ WrittenFor(EntryE)
    /\ ListedFor(EntryF) /\ ~WrittenFor(EntryF)
    /\ ListedFor(Entry8)

----------------------------------------------------------------------------
(* Properties of completeness *)

\* resource r has been fetched and its output written
PulledAndWritten(r) ==
    /\ \E k \in 1..Len(log) :
          /\ log[k].by \in {"fetchPage", "databases.retrieve"}
          /\ log[k].result = "ok"
          /\ Canon(log[k].id) = r
    /\ \E k \in 1..Len(log) : IsWrite(log[k]) /\ Canon(log[k].id) = r

\* C21: when a run with initial depth D has ended without error, every page
\* and database at most D crossings away from the root has been pulled and
\* its output written.
C21_CompleteWithinBudget ==
    pc = "done" =>
        \A r \in Within(world, Canon(id), options.depth) : PulledAndWritten(r)

----------------------------------------------------------------------------
(* Properties of parseNotionReference *)

\* C8: a 32-character hexadecimal string and the same string with dashes at
\* offsets 8/12/16/20 parse to the same reference, and that reference is the
\* canonical (36 characters, dashed, lower-case) UUID.
C8_SameReference ==
    pc = "parsed" =>
        /\ res.bare.ok /\ res.dashed.ok
        /\ res.bare.id = res.dashed.id
        /\ UUID_DASHED(res.bare.id)
        /\ res.bare.id = ToLowerCase(res.bare.id)

----------------------------------------------------------------------------
(* Properties of entriesToCsv *)

Specials == {",", "\n", "\r", "\""}

\* An RFC 4180 reader: fields are separated by commas, records by LF or CRLF;
\* a field that starts with a double quote runs to its closing quote, and a
\* doubled quote inside stands for one quote.  The line break that ends the
\* file does not start a record.
RECURSIVE ReadFrom(_, _, _, _, _, _)
ReadFrom(t, i, quoted, field, rec, recs) ==
    IF i > Len(t)
    THEN IF field = <<>> /\ rec = <<>> THEN recs
         ELSE Append(recs, Append(rec, field))
    ELSE IF quoted
    THEN IF t[i] = "\""
         THEN IF i < Len(t) /\ t[i + 1] = "\""
              THEN ReadFrom(t, i + 2, TRUE, Append(field, "\""), rec, recs)
              ELSE ReadFrom(t, i + 1, FALSE, field, rec, recs)
         ELSE ReadFrom(t, i + 1, TRUE, Append(field, t[i]), rec, recs)
    ELSE IF t[i] = "\"" THEN ReadFrom(t, i + 1, TRUE, field, rec, recs)
    ELSE IF t[i] = "," THEN ReadFrom(t, i + 1, FALSE, <<>>, Append(rec, field), recs)
    ELSE IF t[i] = "\n"
    THEN ReadFrom(t, i + 1, FALSE, <<>>, <<>>, Append(recs, Append(rec, field)))
    ELSE IF t[i] = "\r" /\ i < Len(t) /\ t[i + 1] = "\n"
    THEN ReadFrom(t, i + 2, FALSE, <<>>, <<>>, Append(recs, Append(rec, field)))
    ELSE ReadFrom(t, i + 1, FALSE, Append(field, t[i]), rec, recs)

ReadCsv(text) == ReadFrom(text, 1, FALSE, <<>>, <<>>, <<>>)

TitleNames(schema) ==
    { schema[k][1] : k \in { j \in 1..Len(schema) : schema[j][2].type = "title" } }

OtherNames(schema) == NamesOf(schema) \ TitleNames(schema)

\* the header the schema calls for: the title-typed name, then the other
\* names in ascending order
IsOrderedHeader(header, schema) ==
    /\ Len(header) = Len(schema)
    /\ { header[k] : k \in 1..Len(header) } = NamesOf(schema)
    /\ TitleNames(schema) # {} => header[1] \in TitleNames(schema)
    /\ \A i, j \in 1..Len(header) :
          i < j /\ header[i] \in OtherNames(schema) /\ header[j] \in OtherNames(schema)
            => localeCompare(header[i], header[j]) <= 0

\* C9: the header lists the title-typed property first, then the other names
\* in ascending locale order, whatever the iteration order of the schema;
\* every data row has as many fields as the header, in the header's column
\* order, with an empty field where the entry lacks the property.
C9_HeaderAndRows ==
    pc = "csv" /\ arg.schema # <<>> =>
        \E read \in {ReadCsv(res)} :
            /\ Len(read) = 1 + Len(arg.entries)
            /\ IsOrderedHeader(read[1], arg.schema)
            /\ \A e \in 1..Len(arg.entries) :
                /\ Len(read[e + 1]) = Len(read[1])
                /\ \A k \in 1..Len(read[1]) :
                      read[e + 1][k] =
                        IF read[1][k] \in DOMAIN arg.entries[e].properties
                        THEN extractPropertyValue(arg.entries[e].properties[read[1][k]])
                        ELSE <<>>

\* the field as the rule of RFC 4180 writes it
Quoted(v) ==
    IF { v[k] : k \in 1..Len(v) } \cap Specials = {}
    THEN v
    ELSE <<"\"">> \o Join(Split(v, "\""), <<"\"", "\"">>) \o <<"\"">>

\* the values the document holds, record by record: the columns, then for
\* each entry its value in each column
ValuesOf(entries, columns) ==
    <<columns>> \o
    Tabulate(LAMBDA e :
                Tabulate(LAMBDA k :
                            IF columns[k] \in DOMAIN entries[e].properties
                            THEN extractPropertyValue(entries[e].properties[columns[k]])
                            ELSE <<>>,
                         1, Len(columns)),
             1, Len(entries))

\* a record without columns is written as an empty line, which reads back as
\* one empty field
AsRead(records) ==
    Tabulate(LAMBDA r : IF records[r] = <<>> THEN << <<>> >> ELSE records[r],
             1, Len(records))

\* C10: every header field and every data field is written unchanged when it
\* has no comma, line feed, carriage return or double quote, and otherwise
\* wrapped in double quotes with each inner double quote doubled; an RFC 4180
\* reader gets every field's value back.
C10_FieldsEscapedAndRecovered ==
    pc = "csv" =>
        \E values \in {ValuesOf(arg.entries, sortColumns(arg.schema))} :
            /\ res = Join(Tabulate(LAMBDA r :
                                      Join(Tabulate(LAMBDA k : Quoted(values[r][k]),
                                                    1, Len(values[r])), <<",">>),
                                   1, Len(values)), <<"\n">>) \o <<"\n">>
            /\ ReadCsv(res) = AsRead(values)

\* a document with a field that holds a double quote and a carriage return,
\* next to another field
C10_QuoteAndReturnWritten ==
    /\ pc = "csv"
    /\ Len(arg.schema) > 1
    /\ Len(arg.entries) > 1
    /\ \E k \in DOMAIN arg.entries[2].properties :
          extractPropertyValue(arg.entries[2].properties[k]) = <<"\"", "\r">>

\* C11: the document ends with exactly one newline: its last character is a
\* line feed and the character before it, if any, is not a line feed.
C11_OneTrailingNewline ==
    pc = "csv" =>
        /\ Len(res) >= 1
        /\ res[Len(res)] = "\n"
        /\ Len(res) >= 2 => res[Len(res) - 1] # "\n"

----------------------------------------------------------------------------
(* Properties of renderRichText *)

Wrap(open, text, close) == open \o text \o close

\* the text of a literal or mention span before any styling
SourceText(item) ==
    IF item.type = "text" THEN item.text.content
    ELSE IF item.mention.type = "date"
         THEN IF item.mention.date.end.isString
              THEN item.mention.date.start \o <<" ", RightArrow, " ">>
                     \o item.mention.date.end.value
              ELSE item.mention.date.start
         ELSE item.plain_text

\* the annotation steps in their order: code alone; else strikethrough, then
\* the emphasis, then the underline
Styled(text, ann) ==
    IF ann.code THEN Wrap(<<Backtick>>, text, <<Backtick>>)
    ELSE LET s1 == IF ann.strikethrough THEN Wrap(<<"~", "~">>, text, <<"~", "~">>)
                   ELSE text
             s2 == IF ann.bold /\ ann.italic
                   THEN Wrap(<<"*", "*", "*">>, s1, <<"*", "*", "*">>)
                   ELSE IF ann.bold THEN Wrap(<<"*", "*">>, s1, <<"*", "*">>)
                   ELSE IF ann.italic THEN Wrap(<<"*">>, s1, <<"*">>)
                   ELSE s1
         IN  IF ann.underline
             THEN Wrap(<<"<", "u", ">">>, s2, <<"<", "/", "u", ">">>)
             ELSE s2

Linked(text, href) ==
    Wrap(<<"[">>, text, <<"]", "(">> \o href \o <<")">>)

\* the span as the stated order renders it, every content styled
SpanAsStated(item) ==
    IF item.type = "equation"
    THEN Wrap(<<"$">>, item.equation.expression, <<"$">>)
    ELSE IF item.href.isString /\ item.href.value # <<>>
         THEN Linked(Styled(SourceText(item), item.annotations), item.href.value)
         ELSE Styled(SourceText(item), item.annotations)

\* the same, with an empty text left without styling
SpanAsRendered(item) ==
    IF item.type = "equation"
    THEN Wrap(<<"$">>, item.equation.expression, <<"$">>)
    ELSE LET text == IF SourceText(item) = <<>> THEN <<>>
                     ELSE Styled(SourceText(item), item.annotations)
         IN  IF item.href.isString /\ item.href.value # <<>>
             THEN Linked(text, item.href.value)
             ELSE text

RECURSIVE Concat(_)
Concat(parts) == IF parts = <<>> THEN <<>> ELSE Head(parts) \o Concat(Tail(parts))

\* C12 as stated: every literal or mention span, the empty ones too, is styled
\* in the order code / strikethrough / emphasis / underline and then wrapped
\* as a link when it has an href; equations are $expression$; the spans are
\* concatenated without a separator.
C12_EverySpanStyled ==
    pc = "rendered" =>
        res = Concat(Tabulate(LAMBDA k : SpanAsStated(arg[k]), 1, Len(arg)))

\* C12: a literal or mention span with a non-empty text is styled in the order
\* code (alone) / strikethrough / emphasis / underline; a span with an empty
\* text gets no styling; the result is wrapped as [text](href) when the span
\* has an href; equations are $expression$ without styling or
\* link; the spans are concatenated without a separator.
C12_NonEmptySpanStyled ==
    pc = "rendered" =>
        res = Concat(Tabulate(LAMBDA k : SpanAsRendered(arg[k]), 1, Len(arg)))

\* C12, a state where it applies: a struck, bold, italic, underlined link
\* followed by a second span
C12_AllMarksLinked ==
    /\ pc = "rendered"
    /\ Len(arg) = 2
    /\ arg[1].type = "text"
    /\ arg[1].text.content # <<>>
    /\ arg[1].annotations = [Plain EXCEPT !.bold = TRUE, !.italic = TRUE,
                                          !.strikethrough = TRUE, !.underline = TRUE]
    /\ Truthy(arg[1].href)
    /\ res = Chars("[<u>***~~a~~***</u>](u)**b**")

----------------------------------------------------------------------------
(* Properties of renderBlock *)

\* C13: table_of_contents, breadcrumb, column_list, column and synced_block
\* render as the empty string; a kind without a case renders as an HTML
\* comment that names the kind.
C13_StructuralKindsEmpty ==
    pc = "block rendered" =>
        /\ arg.type \in StructuralKinds => res = <<>>
        /\ arg.type \in OtherKinds =>
              res = Chars("<!-- unsupported: ") \o Chars(arg.type) \o Chars(" -->")

\* the media payload of a block
MediaOf(block) ==
    CASE block.type = "image" -> block.image
      [] block.type = "video" -> block.video
      [] block.type = "audio" -> block.audio
      [] block.type = "file" -> block.file
      [] block.type = "pdf" -> block.pdf

\* C14: a media block renders as link or image syntax; the label is the
\* rendered caption when that is non-empty and the kind name otherwise; the
\* URL is that of the variant the payload carries.
C14_MediaLabel ==
    pc = "block rendered" /\ arg.type \in FileKinds \cup {"image"} =>
        LET media == MediaOf(arg)
            caption == renderRichText(media.caption)
            label == IF caption # <<>> THEN caption ELSE Chars(arg.type)
            url == IF media.type = "external" THEN media.external.url
                                              ELSE media.file.url
        IN  res = (IF arg.type = "image" THEN <<"!">> ELSE <<>>)
                    \o <<"[">> \o label \o <<"]", "(">> \o url \o <<")">>

----------------------------------------------------------------------------
(* Properties of blocksToMarkdown *)

\* every block that the assembler renders, with the sibling just before it
\* (a sequence of none when it is the first of its list); the rows of a table
\* belong to the table
RECURSIVE BlockSites(_)
BlockSites(blocks) ==
    UNION { { [block |-> blocks[k],
               prev |-> IF k > 1 THEN <<blocks[k - 1]>> ELSE <<>>] }
            \cup (IF blocks[k].type = "table" THEN {}
                  ELSE BlockSites(blocks[k].children)) :
            k \in 1..Len(blocks) }

\* the lines of the frontmatter, the blank line not counted
FrontmatterLen == 5

\* C15: in the document, a non-table block with a non-empty render that is not
\* the first content has exactly one blank line before it, or none when it and
\* the sibling just before it are both list items; at every nesting level,
\* the first child of a block included.
C15_BlankLineBeforeBlock ==
    pc = "markdown" =>
        \E doc \in {Split(res, "\n")} :
            LET body == { j \in 1..Len(doc) :
                            /\ doc[j] # <<>>
                            /\ arg.page # <<>> => j > FrontmatterLen }
            IN  \A site \in BlockSites(arg.blocks) :
                    site.block.type # "table" /\ renderBlock(site.block) # <<>> =>
                        \E j \in body :
                            /\ TrimStart(doc[j]) = renderBlock(site.block)
                            /\ (\E i \in body : i < j) =>
                                IF /\ isListItem(site.block.type)
                                   /\ site.prev # <<>>
                                   /\ isListItem(site.prev[1].type)
                                THEN doc[j - 1] # <<>>
                                ELSE doc[j - 1] = <<>> /\ doc[j - 2] # <<>>

\* the frontmatter lines of a page, each ended by its line feed
FrontmatterLines(page) ==
    Chars("---\ntitle: \"") \o escapeYaml(PageTitle(page.properties))
        \o Chars("\"\ncreated: ") \o page.created_time
        \o Chars("\nlast_edited: ") \o page.last_edited_time
        \o Chars("\n---\n")

\* no run of three line feeds, nothing blank before the final line feed, one
\* final line feed
WellEnded(doc) ==
    /\ ~Includes(doc, <<"\n", "\n", "\n">>)
    /\ Len(doc) >= 1
    /\ doc[Len(doc)] = "\n"
    /\ Len(doc) >= 2 => doc[Len(doc) - 1] \notin Whitespace

\* C16 as stated: the document has no run of 3 or more newlines, no trailing
\* whitespace before its final newline and exactly one final newline; with a
\* page it starts with the frontmatter lines followed by a blank line.
C16_FrontmatterThenBlankLine ==
    pc = "markdown" =>
        /\ WellEnded(res)
        /\ arg.page # <<>> =>
              StartsWith(res, FrontmatterLines(arg.page[1]) \o <<"\n">>)

\* C16: the document has no run of 3 or more newlines, no trailing whitespace
\* before its final newline and exactly one final newline; with a page it
\* starts with the frontmatter lines, followed by a blank line when some block
\* renders content and by nothing otherwise.
C16_FrontmatterThenBody ==
    pc = "markdown" =>
        /\ WellEnded(res)
        /\ arg.page # <<>> =>
              IF Trim(renderBlocks(arg.blocks, 0)) # <<>>
              THEN StartsWith(res, FrontmatterLines(arg.page[1]) \o <<"\n">>)
              ELSE res = FrontmatterLines(arg.page[1])

\* C16, a state where it applies: a page and a block tree whose assembled
\* lines hold a run of three line feeds
C16_RunCollapsed ==
    /\ pc = "markdown"
    /\ arg.page # <<>>
    /\ Includes(renderBlocks(arg.blocks, 0), <<"\n", "\n", "\n">>)

----------------------------------------------------------------------------
(* Properties of the pagination loops *)

\* what the loop keeps of a listing: the full blocks with their subtrees, the
\* ids of the full rows
KeptOf(fn, results) ==
    IF fn = "fetchBlockChildren" THEN AttachChildren(PagedWorld, results, 1)
    ELSE queryAllEntries(results)

====
